---- MODULE Spec2Model ----
(***************************************************************************)
(* Submission review and queue synchronisation of CodeCompBot.            *)
(*                                                                         *)
(* The Data Store (the Submissions, Ledger and Queue worksheets) and the   *)
(* Messaging Gateway (the queue summary messages, the review dialogs) are  *)
(* the state; every inbound Slack event is one action, handled to          *)
(* completion.  Each helper of helpers.py is an operator of the same name. *)
(***************************************************************************)
EXTENDS Integers, Sequences, FiniteSets, TLC

(***************************************************************************)
(* Bounds of the model.                                                    *)
(***************************************************************************)
\* Submissions sent: under Spec, SpecGw, SpecFifo, SpecIntake and SpecStore.
MaxSubs == 2
MaxSubsGw == 1
MaxSubsFifo == 3
MaxSubsIntake == 2
MaxSubsStore == 1
MaxSubsRace == 1
MaxSubsQueue == 2
MaxSubsDrain == 2
\* Ledger rows.
MaxLedger == 2
\* Queue summary messages posted by the "queue" and "reset semester" commands.
MaxQueuePosts == 1

(***************************************************************************)
(* Program constants and configuration.                                    *)
(***************************************************************************)
\* review_modal_action.py:98: the extra-point options are 0 and range(1, 9).
MaxExtra == 8
\* The extra-point options a reviewer picks from in the model.
BonusChoices == {0, 2} \cap 0..MaxExtra

REVIEW_CHANNEL_ID == "REVIEW"
CHALLENGE_CHANNEL_ID == "CHALLENGE"

Admins == {"A1"}
Users == Admins \cup {"U1"}
\* The dialogs (view ids) that can be open at once, and whose they are: a
\* reviewer can have the review dialog open on two devices.
Dialogs == {"V1", "V2"}
Owner(view_id) == "A1"
Teams == {"Red", "Blue"}

\* The Challenges worksheet, in catalog order.
Challenges ==
    << [challenge_key |-> "SOC-001", points |-> 5],
       [challenge_key |-> "SOC-002", points |-> 5],
       [challenge_key |-> "SUP-001", points |-> 3] >>

\* Members worksheet: the team of the author of the challenge message sent
\* at time ts.
MsgTeam(ts) == IF ts % 2 = 1 THEN "Red" ELSE "Blue"

Absent == <<>>
NoSid == <<>>
NoRef == [ts |-> Absent, ch |-> ""]

(***************************************************************************)
(* Pure helpers.                                                           *)
(***************************************************************************)
\* is_admin without the membership test.
is_admin_anyone(user_id) == user_id \in Users

is_admin(user_id) == user_id \in Admins

\* str.strip().lower() on the status column.
Lower(s) ==
    CASE s = "PENDING" -> "pending"
      [] s = "APPROVED" -> "approved"
      [] s = "REJECTED" -> "rejected"
      [] OTHER -> s

\* A Slack timestamp is <<id, format>>: the sheet may render a stored
\* timestamp abbreviated ("abbr"); _to_slack_ts formats it back to six
\* decimal places ("full").  None and "" give None.
_to_slack_ts(val) == IF val = Absent THEN Absent ELSE <<val[1], "full">>

get_challenges == Challenges

StartsWithSUP(key) == key \in {"SUP-001"}

RECURSIVE ScanId(_, _, _)
ScanId(rows, submission_id, i) ==
    IF i > Len(rows) THEN 0
    ELSE IF rows[i].submission_id = submission_id THEN i
         ELSE ScanId(rows, submission_id, i + 1)

\* Index of the first row with this submission_id, 0 when there is none.
get_submission_by_id(rows, submission_id) == ScanId(rows, submission_id, 1)

RECURSIVE ScanPending(_, _)
ScanPending(rows, i) ==
    IF i > Len(rows) THEN 0
    ELSE IF Lower(rows[i].status) = "pending" THEN i
         ELSE ScanPending(rows, i + 1)

RECURSIVE ScanPendingLast(_, _)
ScanPendingLast(rows, i) ==
    IF i < 1 THEN 0
    ELSE IF Lower(rows[i].status) = "pending" THEN i
         ELSE ScanPendingLast(rows, i - 1)

get_next_pending_submission_newest(rows) == ScanPendingLast(rows, Len(rows))

\* Index of the oldest PENDING row, 0 when there is none.
get_next_pending_submission(rows) == ScanPending(rows, 1)

get_pending_count(rows) ==
    Cardinality({i \in DOMAIN rows : Lower(rows[i].status) = "pending"})

\* The calls of update_submission_status on the worksheet, in the order it
\* makes them; the I and J cells are written only for a value.
StatusCalls == {"get_all_values", "update_acell_H", "update_acell_K",
                "update_acell_I", "update_acell_J"}

\* The cells update_submission_status gets to write when the calls in swf
\* raise: every cell before the first call that raises.  all: no call it
\* made raised.
CellsWritten(swf, challenge_key, points) ==
    LET h == "update_acell_H" \notin swf
        k == h /\ "update_acell_K" \notin swf
        c == k /\ (challenge_key = <<>> \/ "update_acell_I" \notin swf)
        j == c /\ (points = <<>> \/ "update_acell_J" \notin swf)
    IN [H |-> h, K |-> k, I |-> c, J |-> j, all |-> j]

\* update_submission_status where a decision that differs from the one
\* recorded reopens the submission.
update_submission_status_reopening(swf, rows, submission_id, status, reviewed_by, challenge_key, points) ==
    LET i == get_submission_by_id(rows, submission_id)
        w == CellsWritten(swf, challenge_key, points)
    IN IF "get_all_values" \in swf \/ i = 0 THEN [ok |-> FALSE, rows |-> rows]
       ELSE [ok |-> w.all,
             rows |-> [rows EXCEPT
                         ![i].status = IF w.H THEN (IF @ \in {"PENDING", status} THEN status ELSE "PENDING") ELSE @,
                         ![i].reviewed_by = IF w.K THEN reviewed_by ELSE @,
                         ![i].challenge_key =
                             IF ~w.I THEN @
                             ELSE IF challenge_key = <<>> THEN @ ELSE challenge_key[1],
                         ![i].points =
                             IF ~w.J THEN @
                             ELSE IF points = <<>> THEN @ ELSE points[1]]]

\* update_submission_status writing the I and J cells also when
\* challenge_key and points are None.
update_submission_status_clearing(swf, rows, submission_id, status, reviewed_by, challenge_key, points) ==
    LET i == get_submission_by_id(rows, submission_id)
        w == CellsWritten(swf, challenge_key, points)
    IN IF "get_all_values" \in swf \/ i = 0 THEN [ok |-> FALSE, rows |-> rows]
       ELSE [ok |-> w.all,
             rows |-> [rows EXCEPT
                         ![i].status = IF w.H THEN status ELSE @,
                         ![i].reviewed_by = IF w.K THEN reviewed_by ELSE @,
                         ![i].challenge_key =
                             IF ~w.I THEN @
                             ELSE IF challenge_key = <<>> THEN "" ELSE challenge_key[1],
                         ![i].points =
                             IF ~w.J THEN @
                             ELSE IF points = <<>> THEN 0 ELSE points[1]]]

\* update_submission_status: only the first matching row is rewritten, cell
\* by cell; a call that raises ends it with False, and the cells written
\* before stay written.  challenge_key and points are <<>> for None and
\* <<x>> for a value.
update_submission_status(swf, rows, submission_id, status, reviewed_by, challenge_key, points) ==
    LET i == get_submission_by_id(rows, submission_id)
        w == CellsWritten(swf, challenge_key, points)
    IN IF "get_all_values" \in swf \/ i = 0 THEN [ok |-> FALSE, rows |-> rows]
       ELSE [ok |-> w.all,
             rows |-> [rows EXCEPT
                         ![i].status = IF w.H THEN status ELSE @,
                         ![i].reviewed_by = IF w.K THEN reviewed_by ELSE @,
                         ![i].challenge_key =
                             IF ~w.I THEN @
                             ELSE IF challenge_key = <<>> THEN @ ELSE challenge_key[1],
                         ![i].points =
                             IF ~w.J THEN @
                             ELSE IF points = <<>> THEN @ ELSE points[1]]]

\* The ledger row without the challenge key.
add_ledger_entry_without_key(rows, team, points_delta, challenge_key, submission_id, reviewed_by) ==
    Append(rows, [team |-> team, points_delta |-> points_delta,
                  challenge_key |-> "",
                  submission_id |-> submission_id,
                  reviewed_by |-> reviewed_by])

add_ledger_entry(rows, team, points_delta, challenge_key, submission_id, reviewed_by) ==
    Append(rows, [team |-> team, points_delta |-> points_delta,
                  challenge_key |-> challenge_key,
                  submission_id |-> submission_id,
                  reviewed_by |-> reviewed_by])

add_submission(rows, submission_id, team, message_url, challenge_key, points) ==
    Append(rows, [submission_id |-> submission_id, team |-> team,
                  message_url |-> message_url, status |-> "PENDING",
                  challenge_key |-> challenge_key, points |-> points,
                  reviewed_by |-> ""])

\* (message_ts, channel_id) as stored, or (None, None) unless both are set.
get_queue_ref(q) == IF q.ts # Absent /\ q.ch # "" THEN q ELSE NoRef

RECURSIVE SumDelta(_, _, _)
SumDelta(rows, team, i) ==
    IF i > Len(rows) THEN 0
    ELSE (IF rows[i].team = team THEN rows[i].points_delta ELSE 0)
         + SumDelta(rows, team, i + 1)

\* get_team_points: the sum of points_delta per team named in the Ledger.
get_team_points(ledger_ws) ==
    [t \in {ledger_ws[i].team : i \in DOMAIN ledger_ws} |->
        SumDelta(ledger_ws, t, 1)]

(***************************************************************************)
(* Unclaimed-set calculator.  challenges_ws and submissions_ws are the     *)
(* rows of the two worksheets.                                             *)
(***************************************************************************)
\* team -> the APPROVED rows of that team, for the teams that have one.
get_approved_submissions_by_team(submissions_ws) ==
    LET approved(i) == Lower(submissions_ws[i].status) = "approved"
        teams == {submissions_ws[i].team :
                     i \in {j \in DOMAIN submissions_ws :
                               approved(j) /\ submissions_ws[j].team # ""}}
    IN [t \in teams |->
           SelectSeq(submissions_ws,
                     LAMBDA r : Lower(r.status) = "approved" /\ r.team = t)]

AllKeys(challenges_ws) ==
    {challenges_ws[i].challenge_key : i \in DOMAIN challenges_ws} \ {""}

get_unclaimed_challenge_keys(challenges_ws, submissions_ws) ==
    LET approved == get_approved_submissions_by_team(submissions_ws)
        completed_keys ==
            UNION {{approved[t][i].challenge_key : i \in DOMAIN approved[t]} :
                      t \in DOMAIN approved} \ {""}
    IN AllKeys(challenges_ws) \ completed_keys

\* The per-team set computed from every team's approved rows.
get_unclaimed_challenge_keys_for_team_any_team(challenges_ws, submissions_ws, team) ==
    get_unclaimed_challenge_keys(challenges_ws, submissions_ws)

get_unclaimed_challenge_keys_for_team(challenges_ws, submissions_ws, team) ==
    LET approved_by_team == get_approved_submissions_by_team(submissions_ws)
        subs == IF team \in DOMAIN approved_by_team
                THEN approved_by_team[team] ELSE <<>>
        completed_keys ==
            {subs[i].challenge_key : i \in DOMAIN subs} \ {""}
    IN AllKeys(challenges_ws) \ completed_keys

\* The catalog rows (by row number) of the point value points whose key the
\* team has not completed.
get_unclaimed_challenges_for_team_at_points(challenges_ws, submissions_ws, team, points) ==
    LET unclaimed_keys ==
            get_unclaimed_challenge_keys_for_team(challenges_ws, submissions_ws, team)
    IN {i \in DOMAIN challenges_ws :
           /\ challenges_ws[i].challenge_key # ""
           /\ challenges_ws[i].points = points
           /\ challenges_ws[i].challenge_key \in unclaimed_keys}

\* Members worksheet: every team has a member.
get_all_teams == Teams

\* team -> (point value of the catalog -> remaining count).  The completed
\* keys are grouped by the points recorded on the approved row.
get_challenges_left_by_team(challenges_ws, submissions_ws) ==
    LET approved_by_team == get_approved_submissions_by_team(submissions_ws)
        values == {challenges_ws[i].points : i \in DOMAIN challenges_ws}
        points_to_challenges(pts) ==
            {challenges_ws[i].challenge_key :
                 i \in {j \in DOMAIN challenges_ws :
                           challenges_ws[j].points = pts
                           /\ challenges_ws[j].challenge_key # ""}}
        subs(team) == IF team \in DOMAIN approved_by_team
                      THEN approved_by_team[team] ELSE <<>>
        completed_by_points(team, pts) ==
            {subs(team)[i].challenge_key :
                 i \in {j \in DOMAIN subs(team) :
                           subs(team)[j].points = pts
                           /\ subs(team)[j].challenge_key # ""}}
    IN [team \in get_all_teams |->
           [pts \in values |->
               Cardinality(points_to_challenges(pts))
               - Cardinality(points_to_challenges(pts)
                             \cap completed_by_points(team, pts))]]

(***************************************************************************)
(* State.                                                                  *)
(***************************************************************************)
VARIABLES
    submissions,  \* rows of the Submissions worksheet, in append order
    ledger,       \* rows of the Ledger worksheet, in append order
    queue,        \* row 2 of the Queue worksheet: [ts, ch]
    msgs,         \* ids of the queue summary messages posted so far
    view,         \* the content of each dialog (view id)
    clock,        \* ts of the latest challenge message
    summary,      \* the count on the summary message the Queue worksheet
                  \* refers to, -1 when it refers to none
    accepting     \* for each dialog, the review_accept_callback running for
                  \* it: the store call it has reached and its local values

vars == <<submissions, ledger, queue, msgs, view, clock, summary, accepting>>

\* The store and the gateway as one value, for the handlers to map.
State == [submissions |-> submissions, ledger |-> ledger, queue |-> queue,
          msgs |-> msgs, view |-> view]

NoView == [kind |-> "none", sid |-> NoSid, qts |-> Absent, qch |-> ""]
EmptyQueueView == [kind |-> "empty", sid |-> NoSid, qts |-> Absent, qch |-> ""]

\* The dialog of _build_review_modal: only its private_metadata
\* (submission_id|queue_msg_ts|queue_ch_id) is state.
_build_review_modal(submission_id, queue_msg_ts, queue_ch_id) ==
    [kind |-> "review", sid |-> submission_id,
     qts |-> queue_msg_ts, qch |-> queue_ch_id]

\* What a handler leaves and what it did: the state (st), the messages it
\* posted, the pair update_queue_message returned (absent when not called),
\* the count it wrote on a summary message (-1 for none), the gateway calls
\* that were made and failed, and whether an exception ended it.
Outcome(st) ==
    [st |-> st, posts |-> {}, ret |-> NoRef, shown |-> -1, failed |-> {},
     raised |-> FALSE]

(***************************************************************************)
(* Queue reconciler.                                                       *)
(***************************************************************************)
\* The calls that write row 2 of the Queue worksheet, and the clears of the
\* reset.
RefCalls == {"update_acell_A2", "update_acell_B2", "update_A1B2"}
ResetCalls == {"batch_clear_ledger", "batch_clear_submissions", "clear_A2B2"}

\* set_queue_ref: cells A2 and B2 are written one after the other; when one
\* of the calls raises, the except writes A1:B2 at once, and raises to the
\* caller when that fails too.  swf are the calls that fail.
set_queue_ref(swf, q, message_ts, channel_id) ==
    LET a == "update_acell_A2" \notin swf
        b == a /\ "update_acell_B2" \notin swf
    IN IF b \/ "update_A1B2" \notin swf
       THEN [queue |-> [ts |-> message_ts, ch |-> channel_id], raised |-> FALSE]
       ELSE [queue |-> [ts |-> IF a THEN message_ts ELSE q.ts, ch |-> q.ch],
             raised |-> TRUE]

\* reset_queue: a failure of the clear is passed over.
reset_queue(swf, q) ==
    IF "clear_A2B2" \in swf THEN q ELSE [ts |-> Absent, ch |-> ""]

\* update_queue_message without the inner try around chat_update: a failed
\* update reaches the outer except, which returns (None, None).
update_queue_message_outer_except(gwf, queue_ws, messages, submissions_ws, review_channel_id, force_new) ==
    LET count == get_pending_count(submissions_ws)
        ref == get_queue_ref(queue_ws)
        ch_str == ref.ch
        ts_str == _to_slack_ts(ref.ts)
        same == [ret |-> NoRef, queue |-> queue_ws, msgs |-> messages,
                 shown |-> -1, failed |-> {}, raised |-> FALSE]
        ts_new == <<Cardinality(messages \ {0}) + 1, "full">>
    IN IF ts_str # Absent /\ ch_str # "" /\ ~force_new
       THEN IF "chat_update" \in gwf
            THEN [same EXCEPT !.failed = {"chat_update"}]
            ELSE [same EXCEPT !.ret = [ts |-> ts_str, ch |-> ch_str],
                              !.shown = count]
       ELSE IF force_new
       THEN IF "post_summary" \in gwf
            THEN [same EXCEPT !.failed = {"post_summary"}]
            ELSE [ret |-> [ts |-> ts_new, ch |-> review_channel_id],
                  queue |-> set_queue_ref(gwf, queue_ws, ts_new, review_channel_id).queue,
                  msgs |-> messages \cup {ts_new[1]},
                  shown |-> count, failed |-> {}, raised |-> FALSE]
       ELSE [same EXCEPT !.ret = [ts |-> ts_str, ch |-> ch_str]]

\* update_queue_message with the failing gateway calls gwf.  The result is
\* the returned pair (ret), the Queue worksheet and the summary messages it
\* leaves, the count it wrote on a summary message (shown, -1 for none),
\* the gateway calls that failed (failed) and whether an exception left the
\* routine (raised).  A failed chat_postMessage raises into the outer
\* except, which returns (None, None).
\* update_queue_message posting a replacement when the update in place fails.
update_queue_message_reposting(gwf, queue_ws, messages, submissions_ws, review_channel_id, force_new) ==
    LET count == get_pending_count(submissions_ws)
        ref == get_queue_ref(queue_ws)
        ch_str == ref.ch
        ts_str == _to_slack_ts(ref.ts)
        same == [ret |-> NoRef, queue |-> queue_ws, msgs |-> messages,
                 shown |-> -1, failed |-> {}, raised |-> FALSE]
        ts_new == <<Cardinality(messages \ {0}) + 1, "full">>
    IN IF ts_str # Absent /\ ch_str # "" /\ ~force_new
       THEN IF "chat_update" \in gwf
            THEN IF "post_summary" \in gwf
                 THEN [same EXCEPT !.failed = {"chat_update", "post_summary"}]
                 ELSE [ret |-> [ts |-> ts_new, ch |-> review_channel_id],
                       queue |-> set_queue_ref(gwf, queue_ws, ts_new, review_channel_id).queue,
                       msgs |-> messages \cup {ts_new[1]},
                       shown |-> count, failed |-> {"chat_update"}, raised |-> FALSE]
            ELSE [same EXCEPT !.ret = [ts |-> ts_str, ch |-> ch_str],
                              !.shown = count]
       ELSE IF force_new
       THEN IF "post_summary" \in gwf
            THEN [same EXCEPT !.failed = {"post_summary"}]
            ELSE [ret |-> [ts |-> ts_new, ch |-> review_channel_id],
                  queue |-> set_queue_ref(gwf, queue_ws, ts_new, review_channel_id).queue,
                  msgs |-> messages \cup {ts_new[1]},
                  shown |-> count, failed |-> {}, raised |-> FALSE]
       ELSE [same EXCEPT !.ret = [ts |-> ts_str, ch |-> ch_str]]

\* update_queue_message posting a summary whenever no reference is stored.
update_queue_message_posting_without_ref(gwf, queue_ws, messages, submissions_ws, review_channel_id, force_new) ==
    LET count == get_pending_count(submissions_ws)
        ref == get_queue_ref(queue_ws)
        ch_str == ref.ch
        ts_str == _to_slack_ts(ref.ts)
        same == [ret |-> NoRef, queue |-> queue_ws, msgs |-> messages,
                 shown |-> -1, failed |-> {}, raised |-> FALSE]
        ts_new == <<Cardinality(messages \ {0}) + 1, "full">>
    IN IF ts_str # Absent /\ ch_str # "" /\ ~force_new
       THEN IF "chat_update" \in gwf
            THEN [same EXCEPT !.ret = [ts |-> ts_str, ch |-> ch_str],
                              !.failed = {"chat_update"}]
            ELSE [same EXCEPT !.ret = [ts |-> ts_str, ch |-> ch_str],
                              !.shown = count]
       ELSE IF force_new \/ ts_str = Absent \/ ch_str = ""
       THEN IF "post_summary" \in gwf
            THEN [same EXCEPT !.failed = {"post_summary"}]
            ELSE [ret |-> [ts |-> ts_new, ch |-> review_channel_id],
                  queue |-> set_queue_ref(gwf, queue_ws, ts_new, review_channel_id).queue,
                  msgs |-> messages \cup {ts_new[1]},
                  shown |-> count, failed |-> {}, raised |-> FALSE]
       ELSE [same EXCEPT !.ret = [ts |-> ts_str, ch |-> ch_str]]

\* update_queue_message updating a stored message in place even when forced.
update_queue_message_in_place_first(gwf, queue_ws, messages, submissions_ws, review_channel_id, force_new) ==
    LET count == get_pending_count(submissions_ws)
        ref == get_queue_ref(queue_ws)
        ch_str == ref.ch
        ts_str == _to_slack_ts(ref.ts)
        same == [ret |-> NoRef, queue |-> queue_ws, msgs |-> messages,
                 shown |-> -1, failed |-> {}, raised |-> FALSE]
        ts_new == <<Cardinality(messages \ {0}) + 1, "full">>
    IN IF ts_str # Absent /\ ch_str # ""
       THEN IF "chat_update" \in gwf
            THEN [same EXCEPT !.ret = [ts |-> ts_str, ch |-> ch_str],
                              !.failed = {"chat_update"}]
            ELSE [same EXCEPT !.ret = [ts |-> ts_str, ch |-> ch_str],
                              !.shown = count]
       ELSE IF force_new
       THEN IF "post_summary" \in gwf
            THEN [same EXCEPT !.failed = {"post_summary"}]
            ELSE [ret |-> [ts |-> ts_new, ch |-> review_channel_id],
                  queue |-> set_queue_ref(gwf, queue_ws, ts_new, review_channel_id).queue,
                  msgs |-> messages \cup {ts_new[1]},
                  shown |-> count, failed |-> {}, raised |-> FALSE]
       ELSE [same EXCEPT !.ret = [ts |-> ts_str, ch |-> ch_str]]

\* update_queue_message storing the reference it updated in place.
update_queue_message_storing_on_update(gwf, queue_ws, messages, submissions_ws, review_channel_id, force_new) ==
    LET count == get_pending_count(submissions_ws)
        ref == get_queue_ref(queue_ws)
        ch_str == ref.ch
        ts_str == _to_slack_ts(ref.ts)
        same == [ret |-> NoRef, queue |-> queue_ws, msgs |-> messages,
                 shown |-> -1, failed |-> {}, raised |-> FALSE]
        ts_new == <<Cardinality(messages \ {0}) + 1, "full">>
    IN IF ts_str # Absent /\ ch_str # "" /\ ~force_new
       THEN IF "chat_update" \in gwf
            THEN [same EXCEPT !.ret = [ts |-> ts_str, ch |-> ch_str],
                              !.failed = {"chat_update"}]
            ELSE [same EXCEPT !.ret = [ts |-> ts_str, ch |-> ch_str],
                              !.queue = [ts |-> ts_str, ch |-> ch_str],
                              !.shown = count]
       ELSE IF force_new
       THEN IF "post_summary" \in gwf
            THEN [same EXCEPT !.failed = {"post_summary"}]
            ELSE LET w == set_queue_ref(gwf, queue_ws, ts_new, review_channel_id)
                     posted == [ts |-> ts_new, ch |-> review_channel_id]
                 IN \* a raise of set_queue_ref reaches the outer except:
                    \* (None, None), with the message posted
                    [ret |-> IF w.raised THEN NoRef ELSE posted,
                     queue |-> w.queue,
                     msgs |-> messages \cup {ts_new[1]},
                     shown |-> IF get_queue_ref(w.queue) = posted THEN count ELSE -1,
                     failed |-> IF w.raised THEN gwf \cap RefCalls ELSE {},
                     raised |-> FALSE]
       ELSE [same EXCEPT !.ret = [ts |-> ts_str, ch |-> ch_str]]

update_queue_message(gwf, queue_ws, messages, submissions_ws, review_channel_id, force_new) ==
    LET count == get_pending_count(submissions_ws)
        ref == get_queue_ref(queue_ws)
        ch_str == ref.ch
        ts_str == _to_slack_ts(ref.ts)
        same == [ret |-> NoRef, queue |-> queue_ws, msgs |-> messages,
                 shown |-> -1, failed |-> {}, raised |-> FALSE]
        ts_new == <<Cardinality(messages \ {0}) + 1, "full">>
    IN IF ts_str # Absent /\ ch_str # "" /\ ~force_new
       THEN IF "chat_update" \in gwf
            THEN [same EXCEPT !.ret = [ts |-> ts_str, ch |-> ch_str],
                              !.failed = {"chat_update"}]
            ELSE [same EXCEPT !.ret = [ts |-> ts_str, ch |-> ch_str],
                              !.shown = count]
       ELSE IF force_new
       THEN IF "post_summary" \in gwf
            THEN [same EXCEPT !.failed = {"post_summary"}]
            ELSE LET w == set_queue_ref(gwf, queue_ws, ts_new, review_channel_id)
                     posted == [ts |-> ts_new, ch |-> review_channel_id]
                 IN \* a raise of set_queue_ref reaches the outer except:
                    \* (None, None), with the message posted
                    [ret |-> IF w.raised THEN NoRef ELSE posted,
                     queue |-> w.queue,
                     msgs |-> messages \cup {ts_new[1]},
                     shown |-> IF get_queue_ref(w.queue) = posted THEN count ELSE -1,
                     failed |-> IF w.raised THEN gwf \cap RefCalls ELSE {},
                     raised |-> FALSE]
       ELSE [same EXCEPT !.ret = [ts |-> ts_str, ch |-> ch_str]]

(***************************************************************************)
(* Handlers.  A handler maps the state st and the event's payload to an    *)
(* Outcome; gwf are the gateway calls that fail while it runs.             *)
(***************************************************************************)
Msg(channel, thread_ts, what, user, points, team, reason) ==
    [channel |-> channel, thread_ts |-> thread_ts, what |-> what,
     user |-> user, points |-> points, team |-> team, reason |-> reason]

\* (queue_msg_ts, queue_ch_id) for threading: what update_queue_message
\* returned, each part falling back to the dialog's private_metadata.
ThreadRef(ret, payload) ==
    IF ret.ts = Absent \/ ret.ch = ""
    THEN [ts |-> IF ret.ts # Absent THEN ret.ts ELSE payload.qts,
          ch |-> IF ret.ch # "" THEN ret.ch ELSE payload.qch]
    ELSE ret

\* The auto-advance leaving the dialog as it was closed when nothing is
\* PENDING.
NextView_closing(rows, ref) ==
    LET n == get_next_pending_submission(rows) IN
    IF n = 0 THEN NoView
    ELSE _build_review_modal(rows[n].submission_id, ref.ts, ref.ch)

\* The auto-advance presenting the first row of the sheet, whatever its
\* status.
NextView_first_row(rows, ref) ==
    IF Len(rows) = 0 THEN EmptyQueueView
    ELSE _build_review_modal(rows[1].submission_id, ref.ts, ref.ch)

\* The dialog after the auto-advance.
NextView(rows, ref) ==
    LET n == get_next_pending_submission(rows) IN
    IF n = 0 THEN EmptyQueueView
    ELSE _build_review_modal(rows[n].submission_id, ref.ts, ref.ch)

\* _process_challenge_message: the row of the challenge message sent at ts.
_process_challenge_message(st, ts) ==
    [st EXCEPT !.submissions =
        add_submission(st.submissions, <<"SUB", ts>>, MsgTeam(ts),
                       <<CHALLENGE_CHANNEL_ID, <<ts, "full">>>>, "", 0)]

\* add_submission keeping the row although append_row raised.
append_submission_despite_error(swf, rows, new_rows) == new_rows

\* The Submissions worksheet after add_submission made new_rows of rows:
\* append_row raises before anything is written when it is in swf.
append_submission(swf, rows, new_rows) ==
    IF "append_row" \in swf THEN rows ELSE new_rows

\* handle_message_events, a challenge message with a file from a team
\* member: _process_challenge_message; when add_submission raises, the
\* failure is reported in the thread of the message.
challenge_submission(st, ts, swf) ==
    LET o == Outcome(st)
        st1 == _process_challenge_message(st, ts)
    IN IF "append_row" \in swf
       THEN [o EXCEPT
               !.st.submissions = append_submission(swf, st.submissions, st1.submissions),
               !.posts = {Msg(CHALLENGE_CHANNEL_ID, <<ts, "full">>, "failed", "", 0, "", "")},
               !.failed = {"append_row"}]
       ELSE [o EXCEPT
               !.st.submissions = append_submission(swf, st.submissions, st1.submissions)]

\* open_review_modal_callback: the Review button of summary message btn.
open_review_modal_callback(st, u, view_id, btn, gwf) ==
    LET stored == get_queue_ref(st.queue)
        ref == IF stored.ts = Absent \/ stored.ch = ""
               THEN [ts |-> <<btn, "full">>, ch |-> REVIEW_CHANNEL_ID]
               ELSE stored
        loading == [kind |-> "loading", sid |-> NoSid, qts |-> ref.ts, qch |-> ""]
        o == Outcome(st)
    IN IF ~is_admin(u) THEN o
       ELSE IF "views_open" \in gwf
       THEN [o EXCEPT !.raised = TRUE, !.failed = {"views_open"}]
       ELSE IF "views_update" \in gwf
       THEN [o EXCEPT !.st.view[view_id] = loading,
                      !.raised = TRUE, !.failed = {"views_update"}]
       ELSE [o EXCEPT !.st.view[view_id] = NextView(st.submissions, ref)]

\* The ledger row only after a status update that returned True.
ledger_due_when_updated(already_approved, updated) == ~already_approved /\ updated

\* ledger_due whatever status was read.
ledger_due_always(already_approved, updated) == TRUE

\* "if not already_approved" of review_accept_callback: what
\* update_submission_status returned (updated) is not looked at.
ledger_due(already_approved, updated) == ~already_approved

\* The select with the first catalog option as its initial option.
selected_option_initial(sel) ==
    IF sel = <<>> THEN <<Challenges[1].challenge_key, Challenges[1].points>> ELSE sel

\* selected_option of the challenge_select block: <<>> when none is chosen.
selected_option(sel) == sel

\* review_accept_callback: Accept in the review dialog payload, with the
\* logged_exception putting the worksheet back as it was before the handler.
logged_exception_undoing(before, written, raised) ==
    IF raised THEN before ELSE written

\* A worksheet after a handler whose exception, if raised, was caught by its
\* "except Exception: logger.exception(...)": what was written before the
\* exception stays written.
logged_exception(before, written, raised) == written

\* selected challenge option sel (<<>> for none, else <<challenge_key,
\* points>>) and the selected extra points.
review_accept_callback(st, u, view_id, payload, sel, extra, gwf) ==
    LET o == Outcome(st)
        selected == selected_option(sel)
        challenge_key == selected[1]
        points == selected[2] + extra
        submission_id == payload.sid
        i == get_submission_by_id(st.submissions, submission_id)
        submission == st.submissions[i]
        already_approved == Lower(submission.status) = "approved"
        team == submission.team
        reviewer_name == u
        upd == update_submission_status(gwf, st.submissions, submission_id, "APPROVED",
                                        reviewer_name, <<challenge_key>>, <<points>>)
        ledger_raised == /\ ledger_due(already_approved, upd.ok)
                         /\ "append_ledger" \in gwf
        led == IF ledger_due(already_approved, upd.ok) /\ ~ledger_raised
               THEN add_ledger_entry(st.ledger, team, points, challenge_key,
                                     submission_id, reviewer_name)
               ELSE st.ledger
        rq == update_queue_message(gwf, st.queue, st.msgs, upd.rows,
                                   REVIEW_CHANNEL_ID, FALSE)
        ref == ThreadRef(rq.ret, payload)
        thread_due == /\ ~already_approved
                      /\ ref.ts # Absent /\ ref.ch # ""
                      /\ _to_slack_ts(ref.ts) # Absent
        thread_raised == thread_due /\ "post_thread" \in gwf
        thread_posts ==
            IF thread_due /\ ~thread_raised
            THEN {Msg(ref.ch, _to_slack_ts(ref.ts), "approved", u, points, team, "")}
            ELSE {}
        surprise_due == /\ ~thread_raised
                        /\ ~already_approved
                        /\ CHALLENGE_CHANNEL_ID # ""
                        /\ StartsWithSUP(challenge_key)
                        /\ \E c \in DOMAIN get_challenges :
                               get_challenges[c].challenge_key = challenge_key
        surprise_raised == surprise_due /\ "post_public" \in gwf
        surprise_posts ==
            IF surprise_due /\ ~surprise_raised
            THEN {Msg(CHALLENGE_CHANNEL_ID, Absent, "surprise", "", points, "", "")}
            ELSE {}
        view_due == ~thread_raised /\ ~surprise_raised
        view_raised == view_due /\ "views_update" \in gwf
    IN IF ~is_admin(u) THEN o
       ELSE IF selected = <<>>
       THEN \* views_update with the view as it is
            IF "views_update" \in gwf
            THEN [o EXCEPT !.raised = TRUE, !.failed = {"views_update"}]
            ELSE o
       ELSE IF i = 0 THEN o
       ELSE IF ledger_raised
       THEN \* add_ledger_entry raises into the handler's except
            [o EXCEPT !.st.submissions = upd.rows,
                      !.raised = TRUE, !.failed = {"append_ledger"}]
       ELSE [st |-> [submissions |->
                        logged_exception(st.submissions, upd.rows,
                                         thread_raised \/ surprise_raised \/ view_raised),
                     ledger |->
                        logged_exception(st.ledger, led,
                                         thread_raised \/ surprise_raised \/ view_raised),
                     queue |-> rq.queue,
                     msgs |-> rq.msgs,
                     view |-> IF view_due /\ ~view_raised
                              THEN [st.view EXCEPT ![view_id] = NextView(upd.rows, ref)]
                              ELSE st.view],
             posts |-> thread_posts \cup surprise_posts,
             ret |-> rq.ret,
             shown |-> rq.shown,
             failed |-> rq.failed
                        \cup (IF thread_raised THEN {"post_thread"} ELSE {})
                        \cup (IF surprise_raised THEN {"post_public"} ELSE {})
                        \cup (IF view_raised THEN {"views_update"} ELSE {}),
             raised |-> thread_raised \/ surprise_raised \/ view_raised]

\* review_reject_callback writing REJECTED on the click, before any reason.
review_reject_callback_rejecting(st, u, view_id, payload, gwf) ==
    LET o == Outcome(st) IN
    IF ~is_admin(u) THEN o
    ELSE IF "views_update" \in gwf
    THEN [o EXCEPT !.raised = TRUE, !.failed = {"views_update"}]
    ELSE [o EXCEPT !.st.view[view_id] = [payload EXCEPT !.kind = "reason"],
                   !.st.submissions =
                       update_submission_status(gwf, st.submissions, payload.sid,
                                                "REJECTED", u, <<>>, <<>>).rows]

\* review_reject_callback: Reject in the review dialog swaps the dialog for
\* the rejection-reason dialog, carrying the private_metadata forward.
review_reject_callback(st, u, view_id, payload, gwf) ==
    LET o == Outcome(st) IN
    IF ~is_admin(u) THEN o
    ELSE IF "views_update" \in gwf
    THEN [o EXCEPT !.raised = TRUE, !.failed = {"views_update"}]
    ELSE [o EXCEPT !.st.view[view_id] = [payload EXCEPT !.kind = "reason"]]

\* The status column compared without lower().
already_rejected_as_stored(rows, i) ==
    IF i = 0 THEN FALSE ELSE rows[i].status = "rejected"

\* already_rejected of reject_reason_view_callback; row i is the one read,
\* 0 when there is none.
already_rejected(rows, i) ==
    IF i = 0 THEN FALSE ELSE Lower(rows[i].status) = "rejected"

\* reject_reason_view_callback: submit of the rejection-reason dialog.
reject_reason_view_callback(st, u, view_id, payload, reason, gwf) ==
    LET o == Outcome(st)
        submission_id == payload.sid
        i == get_submission_by_id(st.submissions, submission_id)
        reviewer_name == u
        upd == update_submission_status(gwf, st.submissions, submission_id, "REJECTED",
                                        reviewer_name, <<>>, <<>>)
        rq == update_queue_message(gwf, st.queue, st.msgs, upd.rows,
                                   REVIEW_CHANNEL_ID, FALSE)
        ref == ThreadRef(rq.ret, payload)
        thread_due == /\ ~already_rejected(st.submissions, i)
                      /\ ref.ts # Absent /\ ref.ch # ""
                      /\ REVIEW_CHANNEL_ID # ""
                      /\ _to_slack_ts(ref.ts) # Absent
        thread_raised == thread_due /\ "post_thread" \in gwf
        thread_posts ==
            IF thread_due /\ ~thread_raised
            THEN {Msg(REVIEW_CHANNEL_ID, _to_slack_ts(ref.ts), "rejected",
                      u, 0, "", reason)}
            ELSE {}
        orig == IF i = 0 THEN <<>> ELSE st.submissions[i].message_url
        origin_due == /\ ~thread_raised
                      /\ ~already_rejected(st.submissions, i) /\ i # 0
                      /\ orig # <<>>
                      /\ orig[1] # "" /\ _to_slack_ts(orig[2]) # Absent
        origin_raised == origin_due /\ "post_origin" \in gwf
        origin_posts ==
            IF origin_due /\ ~origin_raised
            THEN {Msg(orig[1], _to_slack_ts(orig[2]), "rejected", u, 0, "", reason)}
            ELSE {}
        view_due == ~thread_raised /\ ~origin_raised
        view_raised == view_due /\ "views_update" \in gwf
    IN IF ~is_admin(u) THEN o
       ELSE [st |-> [submissions |->
                        logged_exception(st.submissions, upd.rows,
                                         thread_raised \/ origin_raised \/ view_raised),
                     ledger |-> st.ledger,
                     queue |-> rq.queue,
                     msgs |-> rq.msgs,
                     view |-> IF view_due /\ ~view_raised
                              THEN [st.view EXCEPT ![view_id] = NextView(upd.rows, ref)]
                              ELSE st.view],
             posts |-> thread_posts \cup origin_posts,
             ret |-> rq.ret,
             shown |-> rq.shown,
             failed |-> rq.failed
                        \cup (IF thread_raised THEN {"post_thread"} ELSE {})
                        \cup (IF origin_raised THEN {"post_origin"} ELSE {})
                        \cup (IF view_raised THEN {"views_update"} ELSE {}),
             raised |-> thread_raised \/ origin_raised \/ view_raised]

\* approve_submission_callback: the Approve button of a submission message;
\* submission_id is the button's value.
approve_submission_callback(st, u, submission_id, gwf) ==
    LET o == Outcome(st)
        i == get_submission_by_id(st.submissions, submission_id)
        submission == st.submissions[i]
        team == submission.team
        challenge_key == submission.challenge_key
        points == submission.points
        reviewer_name == u
        upd == update_submission_status(gwf, st.submissions, submission_id, "APPROVED",
                                        reviewer_name, <<>>, <<>>)
        led == add_ledger_entry(st.ledger, team, points, challenge_key,
                                submission_id, reviewer_name)
        update_raised == "chat_update" \in gwf
        reply_raised == update_raised /\ "post_thread" \in gwf
    IN IF ~is_admin(u) \/ i = 0 THEN o
       ELSE IF ~upd.ok
       THEN \* "Failed to update submission status."; cells written stay
            [o EXCEPT !.st.submissions = upd.rows,
                      !.failed = gwf \cap StatusCalls]
       ELSE IF "append_ledger" \in gwf
       THEN [o EXCEPT !.st.submissions = upd.rows,
                      !.raised = TRUE, !.failed = {"append_ledger"}]
       ELSE [o EXCEPT
               !.st.submissions = upd.rows,
               !.st.ledger = led,
               !.posts = IF update_raised /\ ~reply_raised
                         THEN {Msg("", Absent, "approved", u, points, team, "")}
                         ELSE {},
               !.failed = gwf \cap {"chat_update", "post_thread"},
               !.raised = reply_raised]

\* _update_queue_message(client, force_new=True) of the "queue" command.
queue_command(st, u, gwf) ==
    LET o == Outcome(st)
        rq == update_queue_message(gwf, st.queue, st.msgs, st.submissions,
                                   REVIEW_CHANNEL_ID, TRUE)
    IN IF ~is_admin(u) THEN o
       ELSE [o EXCEPT !.st.queue = rq.queue, !.st.msgs = rq.msgs,
                      !.ret = rq.ret, !.shown = rq.shown, !.failed = rq.failed]

\* reset_ledger, reset_submissions: nothing to clear under the header, or
\* the range A2..<last row> is cleared.
reset_ledger(ledger_ws) ==
    IF Len(ledger_ws) = 0 THEN ledger_ws ELSE SubSeq(ledger_ws, 1, 0)

\* reset_submissions with the range ending one row early.
reset_submissions_short_range(submissions_ws) ==
    IF Len(submissions_ws) = 0 THEN submissions_ws
    ELSE SubSeq(submissions_ws, Len(submissions_ws), Len(submissions_ws))

reset_submissions(submissions_ws) ==
    IF Len(submissions_ws) = 0 THEN submissions_ws
    ELSE SubSeq(submissions_ws, 1, 0)

\* The "reset semester" command.
reset_semester(st, u, gwf) ==
    LET o == Outcome(st)
        ledger_raised == Len(st.ledger) > 0 /\ "batch_clear_ledger" \in gwf
        submissions_raised == /\ Len(st.submissions) > 0
                              /\ "batch_clear_submissions" \in gwf
        rq == update_queue_message(gwf, reset_queue(gwf, st.queue), st.msgs,
                                   reset_submissions(st.submissions),
                                   REVIEW_CHANNEL_ID, TRUE)
    IN IF ~is_admin(u) THEN o
       ELSE IF ledger_raised
       THEN \* "Reset failed": nothing is cleared
            [o EXCEPT !.posts = {Msg(REVIEW_CHANNEL_ID, Absent, "reset failed", u, 0, "", "")},
                      !.failed = {"batch_clear_ledger"}]
       ELSE IF submissions_raised
       THEN \* "Reset failed", after the ledger was cleared
            [o EXCEPT !.st.ledger = reset_ledger(st.ledger),
                      !.posts = {Msg(REVIEW_CHANNEL_ID, Absent, "reset failed", u, 0, "", "")},
                      !.failed = {"batch_clear_submissions"}]
       ELSE [o EXCEPT !.st.ledger = reset_ledger(st.ledger),
                      !.st.submissions = reset_submissions(st.submissions),
                      !.st.queue = rq.queue, !.st.msgs = rq.msgs,
                      !.posts = {Msg(REVIEW_CHANNEL_ID, Absent, "reset done", u, 0, "", "")},
                      !.ret = rq.ret, !.shown = rq.shown,
                      !.failed = rq.failed \cup (gwf \cap {"clear_A2B2"})]

\* handle_message_events, "admin submit <team> <description>" sent at ts:
\* a PENDING row SUB-ADMIN-<ts> for the team, with no origin message; the
\* queue summary is not reconciled.  A team that is not in the Members
\* sheet, or a sender who is not an admin, only gets a reply.
admin_submit(st, u, ts, team, swf) ==
    LET o == Outcome(st)
        added == add_submission(st.submissions, <<"SUB-ADMIN", ts>>, team, <<>>, "", 0)
    IN IF ~is_admin(u) \/ team \notin get_all_teams THEN o
       ELSE IF "append_row" \in swf
       THEN [o EXCEPT
               !.st.submissions = append_submission(swf, st.submissions, added),
               !.posts = {Msg("", <<ts, "full">>, "failed", "", 0, "", "")},
               !.failed = {"append_row"}]
       ELSE [o EXCEPT !.st.submissions = append_submission(swf, st.submissions, added)]

submission_exists_for_message(rows, message_ts) ==
    get_submission_by_id(rows, <<"SUB", message_ts>>) # 0

\* add_to_review_queue_callback: the message shortcut on the message sent
\* at msg_ts in channel_id (a challenge message with a file).
add_to_review_queue_callback(st, u, channel_id, msg_ts, gwf) ==
    LET o == Outcome(st)
        st1 == _process_challenge_message(st, msg_ts)
        rq == update_queue_message(gwf, st1.queue, st1.msgs, st1.submissions,
                                   REVIEW_CHANNEL_ID, FALSE)
    IN IF ~is_admin(u) THEN o
       ELSE IF channel_id # CHALLENGE_CHANNEL_ID THEN o
       ELSE IF submission_exists_for_message(st.submissions, msg_ts) THEN o
       ELSE IF "append_row" \in gwf
       THEN \* add_submission raises into the handler's except: "Failed to add"
            [o EXCEPT
               !.st.submissions = append_submission(gwf, st.submissions, st1.submissions),
               !.posts = {Msg(channel_id, Absent, "failed", u, 0, "", "")},
               !.failed = {"append_row"}, !.raised = TRUE]
       ELSE [o EXCEPT !.st = [st1 EXCEPT !.queue = rq.queue, !.msgs = rq.msgs],
                      !.ret = rq.ret, !.shown = rq.shown, !.failed = rq.failed]

(***************************************************************************)
(* Events: one action per inbound event, handled to completion.            *)
(***************************************************************************)
Handled(outcome) ==
    \E o \in {outcome} :
       /\ Len(o.st.ledger) <= MaxLedger
       /\ submissions' = o.st.submissions
       /\ ledger' = o.st.ledger
       /\ queue' = o.st.queue
       /\ msgs' = o.st.msgs
       /\ view' = o.st.view
       /\ summary' = IF get_queue_ref(o.st.queue) = NoRef THEN -1
                     ELSE IF o.shown # -1 THEN o.shown
                     ELSE summary
       /\ UNCHANGED accepting

\* handle_message_events, a challenge message with a file; ts is the
\* message's timestamp, later than every earlier one.
ChallengeMessage(ts, max, swf) ==
    /\ Len(submissions) < max
    /\ ts = clock + 1 /\ ts <= max
    /\ Handled(challenge_submission(State, ts, swf))
    /\ clock' = ts

\* The Review button of a summary message; the dialog opens as view_id.
OpenReview(u, view_id, btn, gwf) ==
    /\ btn \in msgs
    /\ Handled(open_review_modal_callback(State, u, view_id, btn, gwf))
    /\ UNCHANGED clock

\* Accept, Reject and the reason submit come from the dialog view_id as it
\* is shown; a user who owns no dialog sends its content all the same.
ReviewAccept(u, view_id, sel, extra, gwf) ==
    /\ view[view_id].kind = "review"
    /\ Handled(review_accept_callback(State, u, view_id, view[view_id], sel, extra, gwf))
    /\ UNCHANGED clock

ReviewReject(u, view_id, gwf) ==
    /\ view[view_id].kind = "review"
    /\ Handled(review_reject_callback(State, u, view_id, view[view_id], gwf))
    /\ UNCHANGED clock

RejectReason(u, view_id, reason, gwf) ==
    /\ view[view_id].kind = "reason"
    /\ Handled(reject_reason_view_callback(State, u, view_id, view[view_id], reason, gwf))
    /\ UNCHANGED clock

ApproveButton(u, submission_id, gwf) ==
    /\ submission_id \in {submissions[k].submission_id : k \in DOMAIN submissions}
                         \cup {<<"SUB", 0>>}
    /\ Handled(approve_submission_callback(State, u, submission_id, gwf))
    /\ UNCHANGED clock

QueueCommand(u, gwf) ==
    /\ Cardinality(msgs \ {0}) < MaxQueuePosts
    /\ Handled(queue_command(State, u, gwf))
    /\ UNCHANGED clock

ResetSemester(u, gwf) ==
    /\ Cardinality(msgs \ {0}) < MaxQueuePosts
    /\ Handled(reset_semester(State, u, gwf))
    /\ UNCHANGED clock

\* "admin submit" in any channel, sent at ts, later than every earlier
\* message.
AdminSubmit(u, ts, team, max, swf) ==
    /\ Len(submissions) < max
    /\ ts = clock + 1 /\ ts <= max
    /\ Handled(admin_submit(State, u, ts, team, swf))
    /\ clock' = ts

\* The shortcut on a message: one sent earlier, or one sent just now that
\* was not handled as a submission.
ShortcutAdd(u, channel_id, msg_ts, gwf, max) ==
    /\ Len(submissions) < max
    /\ msg_ts <= clock + 1 /\ msg_ts <= max
    /\ Handled(add_to_review_queue_callback(State, u, channel_id, msg_ts, gwf))
    /\ clock' = IF msg_ts > clock THEN msg_ts ELSE clock

(***************************************************************************)
(* review_accept_callback, one store call at a time: the listeners run on  *)
(* a pool of threads, so that two of them can be between store calls.      *)
(***************************************************************************)
NotAccepting ==
    [pc |-> "idle", user |-> "", payload |-> NoView, selected |-> <<>>, extra |-> 0,
     already_approved |-> FALSE, team |-> ""]

\* get_submission_by_id: the handler, past the admin test and the test of
\* the selection, reads the submission and keeps its status and team.
AcceptRead(u, view_id, sel, extra) ==
    LET payload == view[view_id]
        i == get_submission_by_id(submissions, payload.sid)
    IN /\ accepting[view_id].pc = "idle"
       /\ payload.kind = "review"
       /\ is_admin(u) /\ selected_option(sel) # <<>> /\ i # 0
       /\ accepting' = [accepting EXCEPT ![view_id] =
              [pc |-> "read", user |-> u, payload |-> payload,
               selected |-> selected_option(sel), extra |-> extra,
               already_approved |-> Lower(submissions[i].status) = "approved",
               team |-> submissions[i].team]]
       /\ UNCHANGED <<submissions, ledger, queue, msgs, view, clock, summary>>

\* update_submission_status(..., "APPROVED", reviewer, challenge_key, points)
AcceptWriteStatus(view_id) ==
    LET a == accepting[view_id]
        upd == update_submission_status({}, submissions, a.payload.sid, "APPROVED",
                                        a.user, <<a.selected[1]>>,
                                        <<a.selected[2] + a.extra>>)
    IN /\ a.pc = "read"
       /\ submissions' = upd.rows
       /\ accepting' = [accepting EXCEPT ![view_id].pc = "written"]
       /\ UNCHANGED <<ledger, queue, msgs, view, clock, summary>>

\* "if not already_approved: add_ledger_entry(...)", on the status read at
\* the start of the handler.
AcceptAppendLedger(view_id) ==
    LET a == accepting[view_id]
        led == IF ledger_due(a.already_approved, TRUE)
               THEN add_ledger_entry(ledger, a.team, a.selected[2] + a.extra,
                                     a.selected[1], a.payload.sid, a.user)
               ELSE ledger
    IN /\ a.pc = "written"
       /\ Len(led) <= MaxLedger
       /\ ledger' = led
       /\ accepting' = [accepting EXCEPT ![view_id].pc = "appended"]
       /\ UNCHANGED <<submissions, queue, msgs, view, clock, summary>>

\* The rest of the handler: the reconciliation of the summary message, the
\* posts, and the dialog moving to the next PENDING submission.
AcceptFinish(view_id) ==
    LET a == accepting[view_id]
        rq == update_queue_message({}, queue, msgs, submissions, REVIEW_CHANNEL_ID, FALSE)
        ref == ThreadRef(rq.ret, a.payload)
    IN /\ a.pc = "appended"
       /\ queue' = rq.queue
       /\ msgs' = rq.msgs
       /\ view' = [view EXCEPT ![view_id] = NextView(submissions, ref)]
       /\ summary' = IF get_queue_ref(rq.queue) = NoRef THEN -1
                     ELSE IF rq.shown # -1 THEN rq.shown
                     ELSE summary
       /\ accepting' = [accepting EXCEPT ![view_id] = NotAccepting]
       /\ UNCHANGED <<submissions, ledger, clock>>

(***************************************************************************)
(* Specification.                                                          *)
(***************************************************************************)
\* The spreadsheet starts with no submissions and no ledger rows; the Queue
\* worksheet is empty, or holds the reference of an earlier summary message
\* in the abbreviated form the sheet shows.
Init ==
    /\ submissions = <<>>
    /\ ledger = <<>>
    /\ \E stored \in BOOLEAN :
          /\ queue = IF stored
                     THEN [ts |-> <<0, "abbr">>, ch |-> REVIEW_CHANNEL_ID]
                     ELSE NoRef
          /\ msgs = IF stored THEN {0} ELSE {}
          /\ summary = IF stored THEN 0 ELSE -1
    /\ view = [d \in Dialogs |-> NoView]
    /\ clock = 0
    /\ accepting = [d \in Dialogs |-> NotAccepting]

Reasons == {"r1", "r2"}

Options == {<<>>} \cup {<<Challenges[c].challenge_key, Challenges[c].points>> :
                           c \in DOMAIN Challenges}

\* The calls that fail while a handler runs: none when the gateway works
\* (failing is FALSE); else none, or one of the calls, or all of them.
Failures(failing, calls) ==
    IF failing THEN {{}} \cup {{c} : c \in calls} \cup {calls} ELSE {{}}

AcceptCalls == {"chat_update", "post_thread", "post_public", "views_update"}
RejectCalls == {"chat_update", "post_thread", "post_origin", "views_update"}

\* The users who can send an event from the dialog view_id.
Senders(view_id) == {Owner(view_id)} \cup (Users \ Admins)

\* One inbound event, handled to completion: at most max submissions are
\* sent, the dialogs in use are D, and gateway calls fail if failing.
Step(max, D, failing) ==
    \/ \E ts \in 1..max : ChallengeMessage(ts, max, {})
    \/ \E view_id \in D, btn \in 0..MaxQueuePosts :
          \E u \in Senders(view_id), gwf \in Failures(failing, {"views_open", "views_update"}) :
             OpenReview(u, view_id, btn, gwf)
    \/ \E view_id \in D, sel \in Options, extra \in BonusChoices :
          \E u \in Senders(view_id), gwf \in Failures(failing, AcceptCalls) :
             ReviewAccept(u, view_id, sel, extra, gwf)
    \/ \E view_id \in D :
          \E u \in Senders(view_id), gwf \in Failures(failing, {"views_update"}) :
             ReviewReject(u, view_id, gwf)
    \/ \E view_id \in D, reason \in Reasons :
          \E u \in Senders(view_id), gwf \in Failures(failing, RejectCalls) :
             RejectReason(u, view_id, reason, gwf)
    \/ \E u \in Users, ts \in 0..max :
          \E gwf \in Failures(failing, {"chat_update", "post_thread"}) :
             ApproveButton(u, <<"SUB", ts>>, gwf)
    \/ \E u \in Users, gwf \in Failures(failing, {"post_summary"}) : QueueCommand(u, gwf)
    \/ \E u \in Users, gwf \in Failures(failing, {"post_summary"}) : ResetSemester(u, gwf)

\* Two dialogs and a working gateway.
Next == Step(MaxSubs, Dialogs, FALSE)

Spec == Init /\ [][Next]_vars

\* One dialog and a gateway whose calls can fail.
NextGw == Step(MaxSubsGw, {"V1"}, TRUE)

SpecGw == Init /\ [][NextGw]_vars

\* One dialog, a working gateway and three submissions.
NextFifo == Step(MaxSubsFifo, {"V1"}, FALSE)

SpecFifo == Init /\ [][NextFifo]_vars

\* The events that add a submission outside the challenge channel's own
\* message handler.
Intake(max, failing) ==
    \/ \E u \in Users, ts \in 1..max, team \in Teams \cup {"Nobody"} :
          AdminSubmit(u, ts, team, max, {})
    \/ \E u \in Users, channel_id \in {CHALLENGE_CHANNEL_ID, REVIEW_CHANNEL_ID} :
          \E msg_ts \in 1..max, gwf \in Failures(failing, {"chat_update"}) :
             ShortcutAdd(u, channel_id, msg_ts, gwf, max)

\* One dialog, a working gateway, and every way a submission is added.
NextIntake == Step(MaxSubsIntake, {"V1"}, FALSE) \/ Intake(MaxSubsIntake, FALSE)

SpecIntake == Init /\ [][NextIntake]_vars

\* The store calls that raise while a handler runs: one of them.
StoreFailures(calls) == {{c} : c \in calls}

\* The events handled while a call on the spreadsheet raises.
StoreFaults(max) ==
    \/ \E ts \in 1..max : ChallengeMessage(ts, max, {"append_row"})
    \/ \E u \in Users, ts \in 1..max, team \in Teams :
          AdminSubmit(u, ts, team, max, {"append_row"})
    \/ \E u \in Users, msg_ts \in 1..max :
          ShortcutAdd(u, CHALLENGE_CHANNEL_ID, msg_ts, {"append_row"}, max)
    \/ \E sel \in Options, extra \in BonusChoices :
          \E u \in Senders("V1"), swf \in StoreFailures(StatusCalls \cup {"append_ledger"}) :
             ReviewAccept(u, "V1", sel, extra, swf)
    \/ \E reason \in Reasons :
          \E u \in Senders("V1"), swf \in StoreFailures(StatusCalls) :
             RejectReason(u, "V1", reason, swf)
    \/ \E u \in Users, ts \in 0..max :
          \E swf \in StoreFailures(StatusCalls \cup {"append_ledger"}) :
             ApproveButton(u, <<"SUB", ts>>, swf)

\* One dialog, a working gateway, and a spreadsheet whose calls can raise.
NextStore ==
    \/ Step(MaxSubsStore, {"V1"}, FALSE)
    \/ Intake(MaxSubsStore, FALSE)
    \/ StoreFaults(MaxSubsStore)

SpecStore == Init /\ [][NextStore]_vars

\* handle_message_events for a message event that is delivered again: the
\* challenge message sent at ts, whose submission is in the store.
ChallengeMessageRedelivered(ts, max) ==
    /\ Len(submissions) < max
    /\ ts <= clock
    /\ \E i \in 1..Len(submissions) : submissions[i].submission_id = <<"SUB", ts>>
    /\ Handled(challenge_submission(State, ts, {}))
    /\ UNCHANGED clock

\* Every way a submission is added, and message events delivered again.
NextRedeliver ==
    \/ NextIntake
    \/ \E ts \in 1..MaxSubsIntake : ChallengeMessageRedelivered(ts, MaxSubsIntake)

SpecRedeliver == Init /\ [][NextRedeliver]_vars

\* Submissions sent, dialogs opened, and Accepts of the two dialogs handled
\* one store call at a time, in any interleaving.
NextRace ==
    \/ \E ts \in 1..MaxSubsRace : ChallengeMessage(ts, MaxSubsRace, {})
    \/ \E view_id \in Dialogs, btn \in 0..MaxQueuePosts :
          \E u \in Senders(view_id) : OpenReview(u, view_id, btn, {})
    \/ \E u \in Users : QueueCommand(u, {})
    \/ \E view_id \in Dialogs, sel \in Options, extra \in BonusChoices :
          \E u \in Senders(view_id) : AcceptRead(u, view_id, sel, extra)
    \/ \E view_id \in Dialogs : AcceptWriteStatus(view_id)
    \/ \E view_id \in Dialogs : AcceptAppendLedger(view_id)
    \/ \E view_id \in Dialogs : AcceptFinish(view_id)

SpecRace == Init /\ [][NextRace]_vars

\* The calls that fail while a "queue" or a "reset semester" command is
\* handled: one of them, or the calls of one step together.
QueueFailures ==
    {{c} : c \in ResetCalls \cup RefCalls \cup {"post_summary"}}
    \cup {RefCalls, {"clear_A2B2", "post_summary"}}

\* The commands handled while calls on the spreadsheet or the post fail.
QueueFaults ==
    \/ \E u \in Users, gwf \in QueueFailures : QueueCommand(u, gwf)
    \/ \E u \in Users, gwf \in QueueFailures : ResetSemester(u, gwf)

\* One dialog, and the commands of the review channel with failing calls.
NextQueue == Step(MaxSubsQueue, {"V1"}, FALSE) \/ QueueFaults

SpecQueue == Init /\ [][NextQueue]_vars

\* The reviewer decides on the submission the dialog V1 presents: Accept
\* with a selected challenge, or the reason submit after a Reject click.
Finalize ==
    \/ \E sel \in Options \ {<<>>}, extra \in BonusChoices :
          ReviewAccept("A1", "V1", sel, extra, {})
    \/ \E reason \in Reasons : RejectReason("A1", "V1", reason, {})

\* Submissions arrive (a bounded number), the reviewer opens the dialog and
\* works through the queue; every call succeeds.
NextDrain ==
    \/ \E ts \in 1..MaxSubsDrain : ChallengeMessage(ts, MaxSubsDrain, {})
    \/ QueueCommand("A1", {})
    \/ \E btn \in 0..MaxQueuePosts : OpenReview("A1", "V1", btn, {})
    \/ ReviewReject("A1", "V1", {})
    \/ Finalize

\* The reviewer does not leave a presented submission undecided for ever.
SpecDrain == Init /\ [][NextDrain]_vars /\ WF_vars(Finalize)

(***************************************************************************)
(* Properties.                                                             *)
(***************************************************************************)
\* The ledger rows that carry the submission key sid.
EntriesFor(ledger_ws, sid) ==
    {k \in DOMAIN ledger_ws : ledger_ws[k].submission_id = sid}

\* Row k is the same submission before and after the step.
SameSubmission(k) ==
    /\ k \in DOMAIN submissions /\ k \in DOMAIN submissions'
    /\ submissions'[k].submission_id = submissions[k].submission_id

\* C1: when Accept is handled twice in succession from the same dialog for
\* the same submission, with the same selection and bonus and no failing
\* call, the ledger holds exactly one entry for that submission afterwards.
C1_AcceptTwiceOneEntry ==
    \A view_id \in Dialogs, sel \in Options \ {<<>>}, extra \in BonusChoices :
        LET payload == view[view_id]
            u == Owner(view_id)
            first == review_accept_callback(State, u, view_id, payload, sel, extra, {})
            second == review_accept_callback(first.st, u, view_id, payload, sel, extra, {})
        IN (/\ payload.kind = "review"
            /\ get_submission_by_id(submissions, payload.sid) # 0)
           => Cardinality(EntriesFor(second.st.ledger, payload.sid)) = 1

\* C2: in every reachable state the ledger holds at most one entry per
\* submission key.
C2_OneEntryPerSubmission ==
    \A k \in DOMAIN submissions :
        Cardinality(EntriesFor(ledger, submissions[k].submission_id)) <= 1

\* C3: no step takes a submission whose status is APPROVED or REJECTED back
\* to PENDING (a full reset removes the submission).
C3_NeverPendingAgain ==
    [][\A k \in DOMAIN submissions :
          (SameSubmission(k) /\ submissions[k].status \in {"APPROVED", "REJECTED"})
          => submissions'[k].status # "PENDING"]_vars

\* A submission that was accepted and then rejected, and is not PENDING.
C3_Witness ==
    \E k \in DOMAIN submissions :
        /\ submissions[k].status = "REJECTED"
        /\ submissions[k].challenge_key # ""
        /\ EntriesFor(ledger, submissions[k].submission_id) # {}

\* C4: the status of a submission changes only from PENDING, so that no
\* submission is APPROVED and REJECTED over its history.
C4_StatusChangesOnlyFromPending ==
    [][\A k \in DOMAIN submissions :
          (SameSubmission(k) /\ submissions'[k].status # submissions[k].status)
          => submissions[k].status = "PENDING"]_vars

\* C5: Accept on a PENDING submission with the option (k, b) and the bonus e
\* leaves the record APPROVED with key k, points b + e and the reviewer,
\* and appends exactly one ledger row (team, b + e, k, submission key,
\* reviewer); every other record and ledger row is as before.
C5_AcceptPending ==
    \A view_id \in Dialogs, sel \in Options \ {<<>>}, extra \in BonusChoices :
        LET payload == view[view_id]
            i == get_submission_by_id(submissions, payload.sid)
            u == Owner(view_id)
            o == review_accept_callback(State, u, view_id, payload, sel, extra, {})
        IN (/\ payload.kind = "review"
            /\ i # 0
            /\ submissions[i].status = "PENDING")
           => /\ \E c \in DOMAIN Challenges :
                    Challenges[c] = [challenge_key |-> sel[1], points |-> sel[2]]
              /\ u # ""
              /\ o.st.submissions =
                    [submissions EXCEPT ![i] =
                        [submission_id |-> payload.sid,
                         team |-> submissions[i].team,
                         message_url |-> submissions[i].message_url,
                         status |-> "APPROVED",
                         challenge_key |-> sel[1],
                         points |-> sel[2] + extra,
                         reviewed_by |-> u]]
              /\ o.st.ledger =
                    Append(ledger, [team |-> submissions[i].team,
                                    points_delta |-> sel[2] + extra,
                                    challenge_key |-> sel[1],
                                    submission_id |-> payload.sid,
                                    reviewed_by |-> u])

\* A submission accepted with a bonus: 5 base points and 2 extra.
C5_Witness ==
    \E k \in DOMAIN submissions :
        /\ submissions[k].status = "APPROVED"
        /\ submissions[k].challenge_key = "SOC-001"
        /\ submissions[k].points = 7
        /\ submissions[k].reviewed_by = "A1"
        /\ ledger = <<[team |-> submissions[k].team, points_delta |-> 7,
                       challenge_key |-> "SOC-001",
                       submission_id |-> submissions[k].submission_id,
                       reviewed_by |-> "A1"]>>

\* The oldest PENDING row, 0 when there is none.
OldestPending(rows) ==
    LET P == {k \in DOMAIN rows : rows[k].status = "PENDING"} IN
    IF P = {} THEN 0 ELSE CHOOSE k \in P : \A j \in P : k <= j

\* C6: whenever a dialog is rendered with a submission to review, it is the
\* PENDING submission earliest in append order: no submission is presented
\* while one appended before it is PENDING.
C6_PresentsOldestPending ==
    [][\A view_id \in Dialogs :
          (view'[view_id] # view[view_id] /\ view'[view_id].kind = "review")
          => /\ OldestPending(submissions') # 0
             /\ view'[view_id].sid =
                   submissions'[OldestPending(submissions')].submission_id
             /\ get_next_pending_submission(submissions') = OldestPending(submissions')]_vars

\* S1 and S2 are finalized and the dialog presents S3, which is PENDING.
C6_Witness ==
    /\ Len(submissions) = 3
    /\ submissions[1].status # "PENDING"
    /\ submissions[2].status # "PENDING"
    /\ submissions[3].status = "PENDING"
    /\ view["V1"].kind = "review"
    /\ view["V1"].sid = submissions[3].submission_id

AllGatewayCalls ==
    {"chat_update", "post_summary", "post_thread", "post_origin", "post_public",
     "views_open", "views_update"}

\* The stored Queue Reference as update_queue_message returns it.
StoredRef(queue_ws) ==
    [ts |-> _to_slack_ts(get_queue_ref(queue_ws).ts), ch |-> get_queue_ref(queue_ws).ch]

\* C7 as stated: with a gateway whose every call fails, update_queue_message
\* does not raise, returns the stored Queue Reference (absent if none) and
\* leaves the stored reference unchanged, for either value of force_new.
C7_ReconcileReturnsStored ==
    \A force_new \in BOOLEAN :
        LET r == update_queue_message(AllGatewayCalls, queue, msgs, submissions,
                                      REVIEW_CHANNEL_ID, force_new)
        IN ~r.raised /\ r.queue = queue /\ r.ret = StoredRef(queue)

\* C7 as amended: with a gateway whose every call fails, update_queue_message
\* does not raise, posts nothing and leaves the stored Queue Reference
\* unchanged; it returns the stored reference (absent if none) when
\* force_new is false and absent when force_new is true.
C7_ReconcileFailingGateway ==
    \A force_new \in BOOLEAN :
        LET r == update_queue_message(AllGatewayCalls, queue, msgs, submissions,
                                      REVIEW_CHANNEL_ID, force_new)
        IN /\ ~r.raised
           /\ r.queue = queue /\ r.msgs = msgs /\ r.shown = -1
           /\ r.ret = IF force_new THEN NoRef ELSE StoredRef(queue)

\* A reference is stored and a submission is PENDING: the failing forced
\* reconcile returns absent, the non-forced one the stored reference.
C7_Witness ==
    /\ get_queue_ref(queue) # NoRef
    /\ get_pending_count(submissions) > 0
    /\ update_queue_message(AllGatewayCalls, queue, msgs, submissions,
                            REVIEW_CHANNEL_ID, TRUE).ret = NoRef
    /\ update_queue_message(AllGatewayCalls, queue, msgs, submissions,
                            REVIEW_CHANNEL_ID, FALSE).ret = StoredRef(queue)

\* The challenge keys of the APPROVED submissions of the teams in T.
ApprovedKeys(T) ==
    {submissions[k].challenge_key :
        k \in {j \in DOMAIN submissions :
                  submissions[j].status = "APPROVED" /\ submissions[j].team \in T}}
    \ {""}

CatalogKeys == {Challenges[c].challenge_key : c \in DOMAIN Challenges}

\* C8: for every team, the unclaimed keys of the team and the keys of its
\* APPROVED submissions are disjoint and together are the catalog keys; the
\* same holds of the global unclaimed keys and the approved keys of all teams.
C8_UnclaimedComplement ==
    /\ \A team \in Teams :
          LET U == get_unclaimed_challenge_keys_for_team(Challenges, submissions, team)
          IN U \cap ApprovedKeys({team}) = {} /\ U \cup ApprovedKeys({team}) = CatalogKeys
    /\ LET U == get_unclaimed_challenge_keys(Challenges, submissions)
       IN U \cap ApprovedKeys(Teams) = {} /\ U \cup ApprovedKeys(Teams) = CatalogKeys

\* The two teams have approved submissions with different keys.
C8_Witness ==
    /\ ApprovedKeys({"Red"}) # {}
    /\ ApprovedKeys({"Blue"}) # {}
    /\ ApprovedKeys({"Red"}) # ApprovedKeys({"Blue"})

\* The catalog keys worth v points.
KeysAt(v) ==
    {Challenges[c].challenge_key :
        c \in {d \in DOMAIN Challenges : Challenges[d].points = v}}

\* C9: for every team and every point value v of the catalog, remaining(team,
\* v) is the number of catalog keys at v minus the number of those among the
\* team's approved keys, whatever points the approved submissions record.
C9_RemainingByCatalogValue ==
    \A team \in Teams :
        \A v \in {Challenges[c].points : c \in DOMAIN Challenges} :
            get_challenges_left_by_team(Challenges, submissions)[team][v]
            = Cardinality(KeysAt(v)) - Cardinality(KeysAt(v) \cap ApprovedKeys({team}))

\* C10: when the reject reason is submitted twice for a submission, the
\* second time with another reason, the submission is REJECTED after the
\* first call, the second call posts nothing, and every rejection posted
\* carries the first reason.
C10_RejectTwicePostsOnce ==
    \A view_id \in Dialogs, r1 \in Reasons, r2 \in Reasons :
        LET payload == view[view_id]
            i == get_submission_by_id(submissions, payload.sid)
            u == Owner(view_id)
            first == reject_reason_view_callback(State, u, view_id, payload, r1, {})
            second == reject_reason_view_callback(first.st, u, view_id, payload, r2, {})
        IN (payload.kind = "reason" /\ i # 0 /\ r1 # r2)
           => /\ first.st.submissions[i].status = "REJECTED"
              /\ second.st.submissions[i].status = "REJECTED"
              /\ second.posts = {}
              /\ \A m \in first.posts \cup second.posts : m.reason = r1
              /\ submissions[i].status # "REJECTED"
                 => /\ Cardinality(first.posts) = 2
                    /\ \E m \in first.posts : m.channel = REVIEW_CHANNEL_ID
                    /\ \E m \in first.posts : m.channel = CHALLENGE_CHANNEL_ID

\* The reason was submitted from one dialog and the submission is REJECTED,
\* while the other dialog still asks the reason for the same submission.
C10_Witness ==
    \E view_id \in Dialogs :
        LET i == get_submission_by_id(submissions, view[view_id].sid) IN
        /\ view[view_id].kind = "reason"
        /\ i # 0
        /\ submissions[i].status = "REJECTED"
        /\ submissions[i].challenge_key = ""
        /\ ledger = <<>>

(***************************************************************************)
(* Full reset.                                                             *)
(***************************************************************************)
\* A team's score on the standings: its sum in get_team_points, 0 for a team
\* with no ledger row.
Score(ledger_ws, team) ==
    LET points == get_team_points(ledger_ws) IN
    IF team \in DOMAIN points THEN points[team] ELSE 0

\* What holds after a reset semester that succeeded, whatever the store held.
AfterReset(o) ==
    /\ ~o.raised /\ o.failed = {}
    /\ get_next_pending_submission(o.st.submissions) = 0
    /\ get_pending_count(o.st.submissions) = 0
    /\ o.st.ledger = <<>>
    /\ \A team \in Teams : Score(o.st.ledger, team) = 0
    /\ get_unclaimed_challenge_keys(Challenges, o.st.submissions) = CatalogKeys

\* C11 as stated: after a reset semester by an admin with a working gateway,
\* nextPending is absent, the pending count is 0, the ledger is empty and
\* every score is 0, and every catalog key is unclaimed; and a reset on an
\* empty store changes nothing (submissions, ledger, Queue Reference,
\* summary messages, dialogs).
C11_ResetEmptyStoreChangesNothing ==
    LET o == reset_semester(State, "A1", {}) IN
    /\ AfterReset(o)
    /\ (submissions = <<>> /\ ledger = <<>>) => o.st = State

\* C11, amended: as above, but a reset on an empty store leaves the
\* submissions and the ledger as they are, while it still posts a fresh
\* summary message and stores its reference.
C11_ResetClearsStore ==
    LET o == reset_semester(State, "A1", {}) IN
    /\ AfterReset(o)
    /\ (submissions = <<>> /\ ledger = <<>>) =>
          /\ o.st.submissions = submissions /\ o.st.ledger = ledger
          /\ o.st.view = view
          /\ o.st.queue = [ts |-> o.ret.ts, ch |-> REVIEW_CHANNEL_ID]
          /\ o.st.queue # queue
          /\ o.st.msgs # msgs

\* Both submissions were sent, and a reset semester has emptied the store
\* and posted the summary message 1.
C11_Witness ==
    /\ clock = MaxSubs
    /\ submissions = <<>> /\ ledger = <<>>
    /\ queue = [ts |-> <<1, "full">>, ch |-> REVIEW_CHANNEL_ID]

(***************************************************************************)
(* Admin gate.                                                             *)
(***************************************************************************)
\* What a dialog can send back: the content of a review or reason dialog
\* for a submission of the store, with the stored reference or none.
Payloads(st) ==
    {[kind |-> k, sid |-> st.submissions[i].submission_id, qts |-> r.ts, qch |-> r.ch] :
        k \in {"review", "reason"}, i \in DOMAIN st.submissions,
        r \in {NoRef, get_queue_ref(st.queue)}}

\* The handler left every submission, the ledger and the stored Queue
\* Reference as they were.
StoreUntouched(o, st) ==
    /\ o.st.submissions = st.submissions
    /\ o.st.ledger = st.ledger
    /\ o.st.queue = st.queue

\* C12: whatever the store holds and whichever gateway calls fail, an event
\* from a user who is not an admin leaves the submissions, the ledger and the
\* stored Queue Reference unchanged: Open review, Accept, Reject, the reason
\* submit, the Approve button, the add-to-queue shortcut, reset semester.
C12_NonAdminChangesNothing ==
    \A u \in Users \ Admins, gwf \in Failures(TRUE, AllGatewayCalls) :
       /\ \A view_id \in Dialogs, btn \in msgs :
             StoreUntouched(open_review_modal_callback(State, u, view_id, btn, gwf), State)
       /\ \A view_id \in Dialogs, payload \in Payloads(State) :
             /\ \A sel \in Options, extra \in BonusChoices :
                   StoreUntouched(review_accept_callback(State, u, view_id, payload,
                                                         sel, extra, gwf), State)
             /\ StoreUntouched(review_reject_callback(State, u, view_id, payload, gwf), State)
             /\ \A reason \in Reasons :
                   StoreUntouched(reject_reason_view_callback(State, u, view_id, payload,
                                                              reason, gwf), State)
       /\ \A i \in DOMAIN submissions :
             StoreUntouched(approve_submission_callback(State, u,
                               submissions[i].submission_id, gwf), State)
       /\ \A msg_ts \in 1..(clock + 1) :
             StoreUntouched(add_to_review_queue_callback(State, u, CHALLENGE_CHANNEL_ID,
                                                         msg_ts, gwf), State)
       /\ StoreUntouched(reset_semester(State, u, gwf), State)

\* A store in which each of these events would change something if an admin
\* sent it: a PENDING and an APPROVED submission, a ledger entry, a stored
\* reference, and an open review dialog.
C12_Witness ==
    /\ Len(submissions) = 2 /\ Len(ledger) = 1
    /\ \E i, j \in DOMAIN submissions :
          submissions[i].status = "PENDING" /\ submissions[j].status = "APPROVED"
    /\ get_queue_ref(queue) # NoRef
    /\ view["V1"].kind = "review"
    /\ \E o \in {reset_semester(State, "A1", {})} : ~StoreUntouched(o, State)

(***************************************************************************)
(* Accept without a selection.                                             *)
(***************************************************************************)
\* C13: an Accept by an admin from a review dialog with no challenge
\* selected, whichever gateway calls fail, writes nothing to the store
\* (submissions, ledger, Queue Reference), posts no message, does not
\* reconcile the queue summary, and leaves the dialog on the same submission.
C13_AcceptWithoutSelection ==
    \A view_id \in Dialogs, extra \in BonusChoices, gwf \in Failures(TRUE, AcceptCalls) :
       view[view_id].kind = "review" =>
          LET o == review_accept_callback(State, Owner(view_id), view_id,
                                          view[view_id], <<>>, extra, gwf)
          IN /\ o.st = State
             /\ o.posts = {}
             /\ o.ret = NoRef /\ o.shown = -1
             /\ o.failed \subseteq {"views_update"}

\* A review dialog shows a PENDING submission while a Queue Reference is
\* stored: an Accept with a selection would write, reconcile and advance.
C13_Witness ==
    \E view_id \in Dialogs :
       /\ view[view_id].kind = "review"
       /\ get_queue_ref(queue) # NoRef
       /\ \E i \in DOMAIN submissions :
             /\ submissions[i].submission_id = view[view_id].sid
             /\ submissions[i].status = "PENDING"
       /\ review_accept_callback(State, Owner(view_id), view_id, view[view_id],
                                 <<"SOC-001", 5>>, 0, {}).st # State

(***************************************************************************)
(* updateStatus.                                                           *)
(***************************************************************************)
\* The submission ids of the store, and one that no record has.
KnownIds == {submissions[k].submission_id : k \in DOMAIN submissions}
MissingId == <<"SUB", 0>>

\* C14: update_submission_status for an id no record has returns false and
\* leaves the records as they are; for the id of a record it returns true,
\* sets that record's status and reviewer, sets its challenge key and points
\* when they are supplied and keeps them when they are not, keeps its id,
\* team and origin, and keeps every other record and the number of records.
C14_UpdateStatusFrame ==
    \A submission_id \in KnownIds \cup {MissingId},
       status \in {"APPROVED", "REJECTED"},
       challenge_key \in {<<>>, <<"SOC-002">>}, points \in {<<>>, <<7>>} :
       LET r == update_submission_status({}, submissions, submission_id, status,
                                         "A1", challenge_key, points)
           hit == {k \in DOMAIN submissions :
                      submissions[k].submission_id = submission_id}
       IN IF hit = {}
          THEN ~r.ok /\ r.rows = submissions
          ELSE /\ r.ok
               /\ DOMAIN r.rows = DOMAIN submissions
               /\ \A k \in DOMAIN submissions \ hit : r.rows[k] = submissions[k]
               /\ \A k \in hit :
                     /\ r.rows[k].status = status
                     /\ r.rows[k].reviewed_by = "A1"
                     /\ r.rows[k].challenge_key =
                           IF challenge_key = <<>> THEN submissions[k].challenge_key
                           ELSE "SOC-002"
                     /\ r.rows[k].points =
                           IF points = <<>> THEN submissions[k].points ELSE 7
                     /\ r.rows[k].submission_id = submissions[k].submission_id
                     /\ r.rows[k].team = submissions[k].team
                     /\ r.rows[k].message_url = submissions[k].message_url

\* Two records, one of them APPROVED with a challenge key and points, which
\* a status update without key and points has to keep.
C14_Witness ==
    /\ Len(submissions) = 2
    /\ \E k \in DOMAIN submissions :
          /\ submissions[k].status = "APPROVED"
          /\ submissions[k].challenge_key # "" /\ submissions[k].points > 0
          /\ update_submission_status({}, submissions, submissions[k].submission_id,
                                      "REJECTED", "A1", <<>>, <<>>).rows # submissions

(***************************************************************************)
(* Reconciling the queue summary.                                          *)
(***************************************************************************)
\* The gateways on which the update in place fails; posting works on some.
UpdateFails == {gwf \in Failures(TRUE, AllGatewayCalls) : "chat_update" \in gwf}

\* C15: when a Queue Reference is stored and chat_update fails, the
\* non-forced update_queue_message posts no message (also when posting
\* would work), does not raise, writes no count, returns the stored
\* reference and leaves the stored reference as it is.
C15_FailedUpdateKeepsReference ==
    get_queue_ref(queue) # NoRef =>
       \A gwf \in UpdateFails :
          LET r == update_queue_message(gwf, queue, msgs, submissions,
                                        REVIEW_CHANNEL_ID, FALSE)
          IN /\ r.msgs = msgs
             /\ ~r.raised
             /\ r.shown = -1
             /\ r.ret = StoredRef(queue) /\ r.ret # NoRef
             /\ r.queue = queue
             /\ r.failed = {"chat_update"}

\* The stored reference is that of a summary message posted by the "queue"
\* command, and the only submission was finalized, which reconciled.
C15_Witness ==
    /\ queue = [ts |-> <<1, "full">>, ch |-> REVIEW_CHANNEL_ID]
    /\ Len(submissions) = 1 /\ submissions[1].status # "PENDING"
    /\ submissions[1].reviewed_by = "A1"

\* C16 as stated: with no stored Queue Reference and a working gateway, the
\* non-forced update_queue_message posts a new summary message in the review
\* channel, stores its reference and returns it.
C16_NonForcedPostsWithoutReference ==
    get_queue_ref(queue) = NoRef =>
       LET r == update_queue_message({}, queue, msgs, submissions,
                                     REVIEW_CHANNEL_ID, FALSE)
       IN /\ r.msgs # msgs
          /\ r.ret # NoRef /\ r.ret.ch = REVIEW_CHANNEL_ID
          /\ get_queue_ref(r.queue) = r.ret

\* C16, amended: with no stored Queue Reference, the non-forced
\* update_queue_message posts nothing, writes no count, leaves the reference
\* absent and returns absent, whether the gateway works or not; so the
\* add-to-queue shortcut adds the submission and posts no summary message.
C16_NonForcedNeverPosts ==
    get_queue_ref(queue) = NoRef =>
       /\ \A gwf \in Failures(TRUE, AllGatewayCalls) :
             LET r == update_queue_message(gwf, queue, msgs, submissions,
                                           REVIEW_CHANNEL_ID, FALSE)
             IN /\ r.msgs = msgs /\ r.shown = -1
                /\ r.queue = queue
                /\ r.ret = NoRef
                /\ ~r.raised
       /\ \A msg_ts \in 1..(clock + 1) :
             LET o == add_to_review_queue_callback(State, "A1", CHALLENGE_CHANNEL_ID,
                                                   msg_ts, {})
             IN /\ o.st.msgs = msgs /\ o.shown = -1
                /\ o.st.queue = queue /\ o.ret = NoRef
                /\ ~submission_exists_for_message(submissions, msg_ts)
                      => Len(o.st.submissions) = Len(submissions) + 1

\* No reference is stored, one submission is PENDING, and the shortcut on
\* the next message adds a second one.
C16_Witness ==
    /\ get_queue_ref(queue) = NoRef
    /\ Len(submissions) = 1 /\ get_pending_count(submissions) = 1
    /\ get_pending_count(add_to_review_queue_callback(State, "A1", CHALLENGE_CHANNEL_ID,
                                                      clock + 1, {}).st.submissions) = 2

\* C17: when posting works, the forced update_queue_message posts one new
\* summary message with the pending count, whether or not a reference is
\* stored; the stored Queue Reference becomes (the new message, the review
\* channel) and that pair is returned; and chat_update is not called, so the
\* old message is not updated in place (a failing chat_update goes unnoticed).
C17_ForcedPostsNewSummary ==
    \A gwf \in {g \in Failures(TRUE, AllGatewayCalls) : "post_summary" \notin g} :
       LET r == update_queue_message(gwf, queue, msgs, submissions,
                                     REVIEW_CHANNEL_ID, TRUE)
       IN /\ \E m \in 1..(Cardinality(msgs) + 1) :
                /\ m \notin msgs
                /\ r.msgs = msgs \cup {m}
                /\ r.ret = [ts |-> <<m, "full">>, ch |-> REVIEW_CHANNEL_ID]
          /\ get_queue_ref(r.queue) = r.ret
          /\ r.ret # StoredRef(queue)
          /\ r.shown = get_pending_count(submissions)
          /\ r.failed = {} /\ ~r.raised

\* The reference stored at the start was replaced by that of summary
\* message 1, posted by a forced reconcile; both messages exist.
C17_Witness ==
    /\ msgs = {0, 1}
    /\ queue = [ts |-> <<1, "full">>, ch |-> REVIEW_CHANNEL_ID]
    /\ get_pending_count(submissions) > 0

\* The events that change the number of PENDING submissions by adding a
\* submission or by a review decision in the dialog.
AddsSubmission ==
    \/ \E ts \in 1..MaxSubsIntake : ChallengeMessage(ts, MaxSubsIntake, {})
    \/ \E u \in Users, ts \in 1..MaxSubsIntake, team \in Teams :
          AdminSubmit(u, ts, team, MaxSubsIntake, {})
ShortcutAdds ==
    \E u \in Users, msg_ts \in 1..MaxSubsIntake :
       ShortcutAdd(u, CHALLENGE_CHANNEL_ID, msg_ts, {}, MaxSubsIntake)
Decides ==
    \/ \E sel \in Options, extra \in BonusChoices, u \in Senders("V1") :
          ReviewAccept(u, "V1", sel, extra, {})
    \/ \E reason \in Reasons, u \in Senders("V1") : RejectReason(u, "V1", reason, {})

PendingCountChanges ==
    get_pending_count(submissions') # get_pending_count(submissions)

\* C18: every step that handles a challenge message, an admin submit, a
\* shortcut add, an Accept or a Reject-reason submit and changes the number
\* of PENDING submissions while a Queue Reference is stored (the gateway
\* works) leaves the referenced summary message showing the new number of
\* PENDING submissions.
C18_SummaryShowsPendingCount ==
    [][((AddsSubmission \/ ShortcutAdds \/ Decides)
        /\ PendingCountChanges /\ get_queue_ref(queue) # NoRef)
       => summary' = get_pending_count(submissions')]_vars

(***************************************************************************)
(* Auto-advance.                                                           *)
(***************************************************************************)
\* An admin's Accept with a selection, from a dialog whose submission is in
\* the store, and an admin's reason submit; the gateway works.
Accepted(view_id) ==
    /\ get_submission_by_id(submissions, view[view_id].sid) # 0
    /\ \E sel \in Options \ {<<>>}, extra \in BonusChoices :
          ReviewAccept(Owner(view_id), view_id, sel, extra, {})
ReasonSubmitted(view_id) ==
    \E reason \in Reasons : RejectReason(Owner(view_id), view_id, reason, {})
Opened(view_id) ==
    \E btn \in msgs : OpenReview(Owner(view_id), view_id, btn, {})

\* The dialog shows the oldest submission that is PENDING after the step,
\* which is not the one the dialog was about, or the empty-queue view when
\* none is PENDING.
Advanced(view_id) ==
    LET n == OldestPending(submissions') IN
    IF n = 0 THEN view'[view_id] = EmptyQueueView
    ELSE /\ view'[view_id].kind = "review"
         /\ view'[view_id].sid = submissions'[n].submission_id
         /\ view'[view_id].sid # view[view_id].sid

\* C19: a step in which an admin's Accept or Reject-reason submit is handled
\* leaves the same dialog showing the oldest submission still PENDING, never
\* the one just decided, or the empty-queue view when none is PENDING; and a
\* step that opens the review dialog while no submission is PENDING leaves it
\* showing the empty-queue view.
C19_AutoAdvance ==
    [][\A view_id \in Dialogs :
          /\ (Accepted(view_id) \/ ReasonSubmitted(view_id)) => Advanced(view_id)
          /\ (Opened(view_id) /\ get_pending_count(submissions) = 0)
                => view'[view_id] = EmptyQueueView]_vars

\* S1 was decided in the dialog, which now shows S2 while S3 is PENDING too.
C19_Witness ==
    /\ Len(submissions) = 3
    /\ submissions[1].status # "PENDING" /\ submissions[1].reviewed_by = "A1"
    /\ submissions[2].status = "PENDING" /\ submissions[3].status = "PENDING"
    /\ view["V1"] = _build_review_modal(submissions[2].submission_id,
                                        StoredRef(queue).ts, StoredRef(queue).ch)

(***************************************************************************)
(* Reject click, Open, and a dialog left open.                             *)
(***************************************************************************)
\* A step that handles a Reject click or the Review button, from anyone,
\* whether or not the dialog calls fail.
RejectClicked ==
    \E view_id \in Dialogs, u \in Users, gwf \in Failures(TRUE, {"views_update"}) :
       ReviewReject(u, view_id, gwf)
ReviewOpened ==
    \E view_id \in Dialogs, btn \in msgs, u \in Users :
       \E gwf \in Failures(TRUE, {"views_open", "views_update"}) :
          OpenReview(u, view_id, btn, gwf)

\* A step that handles a decision: Accept or a reason submit from a dialog,
\* or the Approve button of a submission.
DecisionHandled ==
    \/ \E view_id \in Dialogs, u \in Users, sel \in Options, extra \in BonusChoices :
          ReviewAccept(u, view_id, sel, extra, {})
    \/ \E view_id \in Dialogs, u \in Users, reason \in Reasons :
          RejectReason(u, view_id, reason, {})
    \/ \E u \in Users, i \in DOMAIN submissions :
          ApproveButton(u, submissions[i].submission_id, {})

\* C20: a step that handles a Reject click or opens the review dialog
\* leaves the submissions, the ledger and the Queue Reference as they were;
\* and a submission that is PENDING and stays in the store is PENDING after
\* every step except one that handles a decision (Accept, by the dialog or
\* by the Approve button, or a reason submit): nothing else, and no passing
\* of time with a dialog left open, changes its status.
C20_RejectClickAndOpenWriteNothing ==
    [][/\ (RejectClicked \/ ReviewOpened)
             => UNCHANGED <<submissions, ledger, queue, msgs, summary>>
       /\ \A k \in DOMAIN submissions :
             (SameSubmission(k) /\ submissions[k].status = "PENDING"
                                /\ submissions'[k].status # "PENDING")
             => DecisionHandled]_vars

\* Reject was clicked for a submission that is still PENDING: one dialog
\* asks for the reason, the other was opened on the same submission.
C20_Witness ==
    /\ view["V1"].kind = "reason" /\ view["V2"].kind = "review"
    /\ view["V2"].sid = view["V1"].sid
    /\ \E k \in DOMAIN submissions :
          /\ submissions[k].submission_id = view["V1"].sid
          /\ submissions[k].status = "PENDING"

(***************************************************************************)
(* Notifications of a decision.                                            *)
(***************************************************************************)
\* The message a submission came from: both kinds of submission key carry
\* the ts of that message.
OriginTs(submission_id) == <<submission_id[2], "full">>

\* C21: when an admin submits a Reject reason from a reason dialog for a
\* submission of the store that is not REJECTED, and the gateway works, the
\* reason is posted as a reply in the thread of a queue summary message in
\* the review channel and as a reply in the thread of the message the
\* submission came from.
C21_ReasonPostedTwice ==
    \A view_id \in Dialogs, reason \in Reasons :
       LET payload == view[view_id]
           i == get_submission_by_id(submissions, payload.sid)
           o == reject_reason_view_callback(State, Owner(view_id), view_id,
                                            payload, reason, {})
       IN (payload.kind = "reason" /\ i # 0 /\ submissions[i].status # "REJECTED")
          => /\ \E p \in o.posts :
                   /\ p.channel = REVIEW_CHANNEL_ID /\ p.thread_ts[1] \in msgs
                   /\ p.what = "rejected" /\ p.reason = reason
             /\ \E p \in o.posts :
                   /\ p.thread_ts = OriginTs(payload.sid)
                   /\ p.channel # REVIEW_CHANNEL_ID
                   /\ p.what = "rejected" /\ p.reason = reason

\* The surprise announcements among the messages a handler posted.
SurprisePosts(o) == {p \in o.posts : p.what = "surprise"}

\* C22: when Accept with a SUP- option is handled for a PENDING submission
\* and the same Accept is handled again (a second click or a retried
\* event), at once or after the other events of the review (here a Reject
\* and its reason from a second dialog on the same submission), the
\* completion is announced in the challenge channel exactly once in all.
C22_SurpriseAnnouncedOnce ==
    \A v1 \in Dialogs, v2 \in Dialogs, extra \in BonusChoices, reason \in Reasons :
       LET payload == view[v1]
           i == get_submission_by_id(submissions, payload.sid)
           sel == <<"SUP-001", 3>>
           first == review_accept_callback(State, Owner(v1), v1, payload, sel, extra, {})
           again == review_accept_callback(first.st, Owner(v1), v1, payload, sel, extra, {})
           click == review_reject_callback(first.st, Owner(v2), v2, view[v2], {})
           submit == reject_reason_view_callback(click.st, Owner(v2), v2,
                                                 click.st.view[v2], reason, {})
           later == review_accept_callback(submit.st, Owner(v1), v1, payload, sel, extra, {})
       IN (/\ payload.kind = "review" /\ i # 0
           /\ submissions[i].status = "PENDING")
          => /\ Cardinality(SurprisePosts(first)) + Cardinality(SurprisePosts(again)) = 1
             /\ (v2 # v1 /\ view[v2] = payload)
                   => Cardinality(SurprisePosts(first))
                      + Cardinality(SurprisePosts(later)) = 1

\* The record a creating handler appends: PENDING, no challenge, no points,
\* no reviewer.
CreatedRecord(row, submission_id) ==
    /\ row.submission_id = submission_id
    /\ row.status = "PENDING" /\ row.challenge_key = ""
    /\ row.points = 0 /\ row.reviewed_by = ""

\* o added exactly one record, with key submission_id, to the rows of st.
AppendsOne(o, st, submission_id) ==
    /\ Len(o.st.submissions) = Len(st.submissions) + 1
    /\ SubSeq(o.st.submissions, 1, Len(st.submissions)) = st.submissions
    /\ CreatedRecord(o.st.submissions[Len(o.st.submissions)], submission_id)
    /\ o.failed = {}

\* o added no record and told the user that the creation failed.
ReportsFailure(o, st) ==
    /\ o.st.submissions = st.submissions
    /\ o.failed = {"append_row"}
    /\ \E m \in o.posts : m.what = "failed"

\* C23: creating a submission appends exactly one record with status
\* PENDING, empty challenge key, points 0 and empty reviewer; when the
\* append fails no record is added and the challenge-message and
\* admin-submit handlers report the failure to the user.
C23_CreateSubmission ==
    \A ts \in 1..(MaxSubsStore + 1), team \in Teams :
       /\ AppendsOne(challenge_submission(State, ts, {}), State, <<"SUB", ts>>)
       /\ AppendsOne(admin_submit(State, "A1", ts, team, {}), State, <<"SUB-ADMIN", ts>>)
       /\ ReportsFailure(challenge_submission(State, ts, {"append_row"}), State)
       /\ ReportsFailure(admin_submit(State, "A1", ts, team, {"append_row"}), State)

\* A record was created, and a further creation fails and is reported.
C23_Witness ==
    /\ Len(submissions) = 1 /\ CreatedRecord(submissions[1], <<"SUB", 1>>)
    /\ ReportsFailure(challenge_submission(State, clock + 1, {"append_row"}), State)
    /\ clock = 1

\* C24: challenge key and points are written together with the APPROVED
\* status: every APPROVED submission has a non-empty challenge key and its
\* points set.
C24_ApprovedHasChallengeAndPoints ==
    \A i \in 1..Len(submissions) :
       submissions[i].status = "APPROVED" =>
          submissions[i].challenge_key # "" /\ submissions[i].points # 0

\* A step that handles an Accept or a reason submit of a dialog.
AcceptOrReasonHandled ==
    \/ \E view_id \in Dialogs, u \in Users, sel \in Options, extra \in BonusChoices :
          ReviewAccept(u, view_id, sel, extra, {})
    \/ \E view_id \in Dialogs, u \in Users, reason \in Reasons :
          RejectReason(u, view_id, reason, {})

HasLedgerEntry(led, submission_id) ==
    \E k \in 1..Len(led) : led[k].submission_id = submission_id

\* C25: a submission that is APPROVED and has a ledger entry keeps its
\* status, challenge key, points and reviewer through every later Accept
\* and every later reason submit.
C25_ApprovedRecordIsFinal ==
    [][AcceptOrReasonHandled =>
         \A i \in 1..Len(submissions) :
            (submissions[i].status = "APPROVED"
               /\ HasLedgerEntry(ledger, submissions[i].submission_id))
            => /\ i <= Len(submissions')
               /\ submissions'[i] = submissions[i]]_vars

\* C26: after any sequence of challenge messages (one event possibly
\* delivered more than once), admin submits and shortcut adds, no two
\* submission records share a key.
C26_SubmissionKeysUnique ==
    \A i, j \in 1..Len(submissions) :
       submissions[i].submission_id = submissions[j].submission_id => i = j

\* The gateway calls of a handler that fail: one of them, or all.
SomeFail(calls) == Failures(TRUE, calls) \ {{}}

\* C27: an Accept or a reason submit during which gateway calls fail
\* leaves the submissions and the ledger exactly as the same event leaves
\* them when every gateway call succeeds: the status written, and for
\* Accept the ledger entry, are not undone.
C27_GatewayFailureKeepsWrites ==
    \A u \in Users :
       /\ view["V1"].kind = "review" =>
             \A sel \in Options, extra \in BonusChoices, gwf \in SomeFail(AcceptCalls) :
                LET ok == review_accept_callback(State, u, "V1", view["V1"], sel, extra, {})
                    bad == review_accept_callback(State, u, "V1", view["V1"], sel, extra, gwf)
                IN bad.st.submissions = ok.st.submissions /\ bad.st.ledger = ok.st.ledger
       /\ view["V1"].kind = "reason" =>
             \A reason \in Reasons, gwf \in SomeFail(RejectCalls) :
                LET ok == reject_reason_view_callback(State, u, "V1", view["V1"], reason, {})
                    bad == reject_reason_view_callback(State, u, "V1", view["V1"], reason, gwf)
                IN bad.st.submissions = ok.st.submissions /\ bad.st.ledger = ok.st.ledger

\* An accepted submission with its ledger entry, while the summary message
\* still shows the count from before the Accept: its update failed.
C27_Witness ==
    /\ \E i \in 1..Len(submissions) :
          /\ submissions[i].status = "APPROVED" /\ submissions[i].challenge_key # ""
          /\ HasLedgerEntry(ledger, submissions[i].submission_id)
    /\ summary = 1 /\ get_pending_count(submissions) = 0

\* The message that the gateway call c of a handler carries.
Carries(c, m) ==
    CASE c = "post_thread" -> m.what \in {"approved", "rejected"} /\ m.channel = REVIEW_CHANNEL_ID
      [] c = "post_origin" -> m.what = "rejected" /\ m.channel = CHALLENGE_CHANNEL_ID
      [] c = "post_public" -> m.what = "surprise"
      [] OTHER -> FALSE

\* bad, the outcome of a handler in which the gateway call c failed, carried
\* out every other step of ok, the outcome with a working gateway: the
\* other notifications are posted and the dialog shows what it shows in ok.
RemainingStepsDone(ok, bad, c) ==
    /\ \A m \in ok.posts : Carries(c, m) \/ m \in bad.posts
    /\ bad.st.view = ok.st.view

\* C29: a gateway failure in the queue reconciliation, in the threaded
\* post or in the surprise or origin announcement of an Accept or of a
\* reason submit does not stop the handler: the remaining notifications
\* are posted and the dialog advances to the next PENDING submission.
C29_LaterStepsFailSilently ==
    \A u \in Users :
       /\ view["V1"].kind = "review" =>
             \A sel \in Options, extra \in BonusChoices :
                \A c \in AcceptCalls \ {"views_update"} :
                   RemainingStepsDone(
                      review_accept_callback(State, u, "V1", view["V1"], sel, extra, {}),
                      review_accept_callback(State, u, "V1", view["V1"], sel, extra, {c}), c)
       /\ view["V1"].kind = "reason" =>
             \A reason \in Reasons :
                \A c \in RejectCalls \ {"views_update"} :
                   RemainingStepsDone(
                      reject_reason_view_callback(State, u, "V1", view["V1"], reason, {}),
                      reject_reason_view_callback(State, u, "V1", view["V1"], reason, {c}), c)

\* C30: an Accept with a selected challenge on a submission read as not
\* APPROVED appends the ledger entry also when the status update fails:
\* with the worksheet read or the status cell write failing the record
\* keeps its status and the entry is appended all the same.
C30_LedgerAppendedWithoutStatusCheck ==
    view["V1"].kind = "review" =>
       \A sel \in Options \ {<<>>}, extra \in BonusChoices :
          \A swf \in StoreFailures(StatusCalls) :
             LET payload == view["V1"]
                 i == get_submission_by_id(submissions, payload.sid)
                 o == review_accept_callback(State, "A1", "V1", payload, sel, extra, swf)
             IN (i # 0 /\ Lower(submissions[i].status) # "approved") =>
                   /\ o.st.ledger =
                         add_ledger_entry(ledger, submissions[i].team, sel[2] + extra,
                                          sel[1], payload.sid, "A1")
                   /\ swf \subseteq {"get_all_values", "update_acell_H"} =>
                         o.st.submissions[i].status = submissions[i].status

\* A submission that is still PENDING and has a ledger entry.
C30_Witness ==
    \E i \in 1..Len(submissions) :
       /\ submissions[i].status = "PENDING"
       /\ HasLedgerEntry(ledger, submissions[i].submission_id)

\* The number of ledger entries of a submission.
LedgerEntries(submission_id) ==
    Cardinality({k \in 1..Len(ledger) : ledger[k].submission_id = submission_id})

\* The Accept handlers run one after the other.
OneAcceptAtATime ==
    Cardinality({d \in Dialogs : accepting[d].pc # "idle"}) <= 1

AtMostOneEntryEach ==
    \A i \in 1..Len(submissions) : LedgerEntries(submissions[i].submission_id) <= 1

\* C28: while the Accept handlers run one after the other, no submission
\* has two ledger entries; two handlers that interleave between their
\* store calls can both read the status as not APPROVED and both append.
C28_SequentialAcceptsAppendOnce == [](OneAcceptAtATime) => [](AtMostOneEntryEach)

\* Two Accept handlers of one submission, each of which read it as not
\* APPROVED, have both appended: the submission has two ledger entries.
C28_Witness ==
    /\ accepting["V1"].pc = "appended" /\ accepting["V2"].pc = "appended"
    /\ accepting["V1"].payload.sid = accepting["V2"].payload.sid
    /\ ~accepting["V1"].already_approved /\ ~accepting["V2"].already_approved
    /\ LedgerEntries(accepting["V1"].payload.sid) = 2

\* C31: a reason submit for a submission key that has no record (after a
\* reset, for example) reports nothing: no rejection is posted, under the
\* queue summary or anywhere else.
C31_RejectMissingReportsNothing ==
    \A view_id \in Dialogs, reason \in Reasons :
       (/\ view[view_id].kind = "reason"
        /\ get_submission_by_id(submissions, view[view_id].sid) = 0)
       => reject_reason_view_callback(State, "A1", view_id, view[view_id],
                                      reason, {}).posts = {}

\* A step that handles "reset semester" of an admin in which the ledger and
\* the submissions are cleared, whatever happens to the reference.
FullResetHandled ==
    \E u \in Admins, gwf \in QueueFailures \cup {{}} :
       /\ gwf \cap {"batch_clear_ledger", "batch_clear_submissions"} = {}
       /\ ResetSemester(u, gwf)

\* C32: after a full reset is handled the stored Queue Reference is absent
\* or refers to a summary message posted by the reset, not to one posted
\* before it, also when the clearing of the reference or the forced post
\* fails.
C32_ResetDropsOldSummary ==
    [][FullResetHandled =>
         \/ get_queue_ref(queue') = NoRef
         \/ queue'.ts[1] \notin msgs]_vars

\* C33: the stored Queue Reference is written only by a forced reconcile
\* and by the clearing of the reset: whichever gateway calls fail, an Open,
\* an Accept, a Reject click, a reason submit and the add-to-queue
\* shortcut, handled for an admin, leave the stored reference as it was.
C33_ReviewLeavesReferenceAlone ==
    \A gwf \in Failures(TRUE, AllGatewayCalls) :
       /\ \A btn \in msgs :
             open_review_modal_callback(State, "A1", "V1", btn, gwf).st.queue = queue
       /\ view["V1"].kind = "review" =>
             /\ \A sel \in Options, extra \in BonusChoices :
                   review_accept_callback(State, "A1", "V1", view["V1"],
                                          sel, extra, gwf).st.queue = queue
             /\ review_reject_callback(State, "A1", "V1", view["V1"], gwf).st.queue = queue
       /\ view["V1"].kind = "reason" =>
             \A reason \in Reasons :
                reject_reason_view_callback(State, "A1", "V1", view["V1"],
                                            reason, gwf).st.queue = queue
       /\ \A msg_ts \in 1..(clock + 1) :
             add_to_review_queue_callback(State, "A1", CHALLENGE_CHANNEL_ID,
                                          msg_ts, gwf).st.queue = queue

\* A stored reference and a PENDING submission under review, whose Accept
\* updates the summary message in place and changes the submissions.
C33_Witness ==
    /\ get_queue_ref(queue) # NoRef
    /\ view["V1"].kind = "review"
    /\ \E sel \in Options \ {<<>>} :
          LET o == review_accept_callback(State, "A1", "V1", view["V1"], sel, 0, {})
          IN o.shown # -1 /\ o.st.submissions # submissions

\* The sum of the points fields of the APPROVED submissions of team, from
\* row i on.
RECURSIVE ApprovedPoints(_, _, _)
ApprovedPoints(rows, team, i) ==
    IF i > Len(rows) THEN 0
    ELSE (IF rows[i].team = team /\ Lower(rows[i].status) = "approved"
          THEN rows[i].points ELSE 0)
         + ApprovedPoints(rows, team, i + 1)

\* C34: for every team, the score (the sum of its ledger deltas) equals
\* the sum of the points of its APPROVED submissions.
C34_ScoreMatchesApprovedPoints ==
    \A team \in Teams :
       Score(ledger, team) = ApprovedPoints(submissions, team, 1)

\* C35: an APPROVED submission has a ledger entry once the reviewer's
\* Accept attempts are over: where the dialog shows an APPROVED submission
\* that has no entry yet (the append failed after the status was
\* written), the Accept repeated with every call succeeding appends it.
C35_ApprovedGetsItsAward ==
    LET payload == view["V1"]
        i == get_submission_by_id(submissions, payload.sid)
    IN (/\ payload.kind = "review" /\ i # 0
        /\ submissions[i].status = "APPROVED"
        /\ ~HasLedgerEntry(ledger, payload.sid))
       => \A sel \in Options \ {<<>>}, extra \in BonusChoices :
             HasLedgerEntry(review_accept_callback(State, "A1", "V1", payload,
                                                   sel, extra, {}).st.ledger,
                            payload.sid)

\* C36: every ledger entry names a submission whose status is APPROVED: no
\* team holds points for a submission that is PENDING or REJECTED.
C36_LedgerEntriesAreApproved ==
    \A k \in 1..Len(ledger) :
       \E i \in 1..Len(submissions) :
          /\ submissions[i].submission_id = ledger[k].submission_id
          /\ submissions[i].status = "APPROVED"

\* C37: for every team of Members and every point value v of the catalog,
\* the number of challenges that get_unclaimed_challenges_for_team_at_points
\* returns for (team, v) equals the remaining count of
\* get_challenges_left_by_team for (team, v).
C37_DerivedViewsAgree ==
    \A team \in get_all_teams :
       \A v \in {get_challenges[c].points : c \in DOMAIN get_challenges} :
          Cardinality(get_unclaimed_challenges_for_team_at_points(
                          get_challenges, submissions, team, v))
          = get_challenges_left_by_team(get_challenges, submissions)[team][v]

\* A decision lowers the number of PENDING submissions by exactly one.
DecisionLowersPending ==
    [][Finalize => get_pending_count(submissions')
                       = get_pending_count(submissions) - 1]_vars

\* After a decision the dialog does not present the decided submission.
DecidedNotPresentedAgain ==
    [][Finalize => ~(/\ view'["V1"].kind = "review"
                     /\ view'["V1"].sid = view["V1"].sid)]_vars

\* A dialog that presents a submission comes to show the empty queue, with
\* nothing left PENDING.
QueueDrains ==
    (view["V1"].kind \in {"review", "reason"})
       ~> (view["V1"].kind = "empty" /\ get_pending_count(submissions) = 0)

\* C38: with every call succeeding and a reviewer who accepts (with a
\* selection) or rejects (with a reason) each submission the dialog
\* presents, each decision lowers the pending count by exactly one, the
\* decided submission is not presented again, and the dialog eventually
\* shows the empty-queue view with no submission left PENDING.
C38_ReviewerDrainsQueue ==
    DecisionLowersPending /\ DecidedNotPresentedAgain /\ QueueDrains

\* Every submission was decided, one accepted and one rejected among them,
\* and the dialog shows the empty queue.
C38_Witness ==
    /\ Len(submissions) = MaxSubsDrain
    /\ get_pending_count(submissions) = 0
    /\ \E i, j \in 1..Len(submissions) :
          submissions[i].status = "APPROVED" /\ submissions[j].status = "REJECTED"
    /\ view["V1"].kind = "empty"

\* The forced reconcile of an admin's queue command, with the calls gwf
\* failing, posts a summary message and leaves the stored reference at that
\* message, which it also returns.
StoresWhatItPosted(gwf) ==
    LET o == queue_command(State, "A1", gwf)
    IN \E n \in o.st.msgs \ msgs :
          LET posted == [ts |-> <<n, "full">>, ch |-> REVIEW_CHANNEL_ID]
          IN get_queue_ref(o.st.queue) = posted /\ o.ret = posted

\* C39: after a forced reconcile whose gateway post succeeds, the stored
\* Queue Reference is the (locator, channel) of the message just posted, and
\* that pair is returned, also when store writes of the reference fail.
C39_ForcedReconcileStoresPosted ==
    \A gwf \in QueueFailures \cup {{}} :
       "post_summary" \notin gwf => StoresWhatItPosted(gwf)

\* The same with no write, or a single write, of the reference failing.
SingleWriteFailureRepaired ==
    \A gwf \in {{}} \cup {{c} : c \in RefCalls} : StoresWhatItPosted(gwf)

\* After "reset semester" of an admin, with the calls gwf failing, the
\* ledger and the submissions are both empty or both as they were.
ScoringAllOrNothing(gwf) ==
    LET o == reset_semester(State, "A1", gwf)
    IN \/ Len(o.st.ledger) = 0 /\ Len(o.st.submissions) = 0
       \/ o.st.ledger = ledger /\ o.st.submissions = submissions

\* The success reply of "reset semester" is posted only when the ledger and
\* the submissions are empty and the reference stored before is gone.
SuccessMeansCleared(gwf) ==
    LET o == reset_semester(State, "A1", gwf)
    IN (\E m \in o.posts : m.what = "reset done")
          => /\ Len(o.st.ledger) = 0 /\ Len(o.st.submissions) = 0
             /\ \/ get_queue_ref(o.st.queue) = NoRef
                \/ o.st.queue.ts[1] \notin msgs

\* C40: the reset semester command is all-or-nothing on the scoring
\* records, also when one of the store clears fails, and it reports success
\* only when ledger, submissions and queue reference were all cleared.
C40_ResetAllOrNothing ==
    \A gwf \in QueueFailures \cup {{}} :
       ScoringAllOrNothing(gwf) /\ SuccessMeansCleared(gwf)

\* The two parts, each on its own.
ResetScoringAllOrNothing ==
    \A gwf \in QueueFailures \cup {{}} : ScoringAllOrNothing(gwf)

ResetSuccessMeansCleared ==
    \A gwf \in QueueFailures \cup {{}} : SuccessMeansCleared(gwf)
====
